---- MODULE Spec2Model ----
(***************************************************************************)
(* Chunk streaming of Tensor_Space_Vis (src/plotData.js, dataHandler.js).  *)
(*                                                                         *)
(* Numbers: world coordinates, camera positions and chunk diameters are    *)
(* integers.  Half diameters (diameter / 2, the 0.5 of the sight margin)   *)
(* are kept exact by comparing doubled quantities.  Instance diameters are *)
(* counted in quarters of a world unit (the default 0.25 is 1) and colour  *)
(* channels in 255ths.                                                     *)
(***************************************************************************)
EXTENDS Integers, Sequences, FiniteSets, TLC

VARIABLES
  data,            \* sampleData.json as seen through dataHandler
  config,          \* the configuration store: its values and callbacks
  cam,             \* scene.activeCamera.position
  chunkDiameter,   \* plotData closure: let chunkDiameter
  chunkLoadRange,  \* plotData closure: let chunkLoadRange
  lastChunkDist,   \* plotData closure: let lastChunkDist
  chunks,          \* plotData closure: chunk map, key -> chunkData
  activeChunks,    \* plotData closure: array of chunk keys
  chunkCentroid,   \* plotData closure: centroid of the previous frame
  heap,            \* geometry objects of the scene that are not disposed
  pc               \* position of the program

vars == <<data, config, cam, chunkDiameter, chunkLoadRange, lastChunkDist,
          chunks, activeChunks, chunkCentroid, heap, pc>>

----------------------------------------------------------------------------
(* Bounds *)

MaxCoord == 3
MaxDiameter == 4
MaxBuildDiameter == 3
MaxRange == 2
MaxScale == 2
MaxGenes == 2
MaxCam == 1
MaxStreamGenes == 1
MaxStreamDiameter == 2
MaxActive == 10
MaxLoaderGenes == 2
MaxReloadSetting == 2
MaxReloadActive == 3
MaxShellGenes == 2
MaxSetting == 2
MaxPaintGenes == 2
MaxCamScale == 2
MaxFillSlots == 2
MaxFillDiameter == 2
MaxNameLength == 3

----------------------------------------------------------------------------
(* Values *)

\* the value of a coordinate the data does not have (allTissueData[t]?.[i])
undefined == 777777
\* undefined * scale, and everything computed from it
NaN == 999999
\* an empty geometry handle
null == 0

Abs(a) == IF a < 0 THEN -a ELSE a

Range(s) == {s[i] : i \in DOMAIN s}

\* coordinates.map((v) => v*scale)
Times(v, scale) == IF v = undefined \/ v = NaN THEN NaN ELSE v * scale

----------------------------------------------------------------------------
(* Grid indexer *)

trimNoMul(a, diameter) ==
  IF a = NaN THEN NaN ELSE (2 * a + diameter) \div (2 * diameter)

trimNoHalf(a, diameter) ==
  IF a = NaN THEN NaN ELSE (a \div diameter) * diameter

\* Math.floor((a + diameter / 2) / diameter) * diameter
trim(a, diameter) ==
  IF a = NaN THEN NaN ELSE ((2 * a + diameter) \div (2 * diameter)) * diameter

getChunkCentroid(p, diameter) ==
  <<trim(p[1], diameter), trim(p[2], diameter), trim(p[3], diameter)>>

\* Array.prototype.toString of a centroid, the key of the chunk map: the
\* decimal renderings of the three numbers joined by commas, which is one
\* string per triple of numbers ("NaN" for NaN)
toString(c) == <<c[1], c[2], c[3]>>

----------------------------------------------------------------------------
(* Configuration store: config holds values (allModes, lightMode, darkMode),*)
(* the media query behind the darkMode default (prefersDark) and the table  *)
(* of setter callbacks in the order of their registration.  A value handed  *)
(* to the store is a record with its typeof and its content; the keys      *)
(* rotationX, rotationY are represented by x, the keys with the            *)
(* positive-number validator by scale.                                      *)

\* the keys of defaults.allModes
hasDefault(key) ==
  key \in {"orbitMode", "darkMode", "x", "y", "z", "scale", "chunkDiameter",
           "chunkLoadRange", "shownFamilies", "tissueX", "tissueY", "tissueZ",
           "outlierDataPointDiameter"}

\* defaults.allModes[key]; outlierDataPointDiameter in quarters
defaultOf(cfg, key) ==
  CASE key = "orbitMode" -> FALSE
    [] key = "darkMode" -> cfg.prefersDark
    [] key \in {"x", "y", "z"} -> 0
    [] key = "scale" -> 100
    [] key = "chunkDiameter" -> 50
    [] key = "chunkLoadRange" -> 2
    [] key = "shownFamilies" -> null
    [] key = "tissueX" -> "Liver"
    [] key = "tissueY" -> "Heart"
    [] key = "tissueZ" -> "Lung"
    [] key = "outlierDataPointDiameter" -> 1

\* values.allModes.darkMode ?? defaults.allModes.darkMode
isDark(cfg) ==
  IF "darkMode" \in DOMAIN cfg.allModes THEN cfg.allModes["darkMode"]
  ELSE cfg.prefersDark

\* values.darkMode or values.lightMode, as the mode is
modeValues(cfg) == IF isDark(cfg) THEN cfg.darkMode ELSE cfg.lightMode

\* defaults.darkMode or defaults.lightMode (two of their colours), as hex
\* digits
modeDefaults(cfg) ==
  IF isDark(cfg)
  THEN [outlierDataPointColor |-> <<15, 1, 5, 8, 2, 9, 15, 15>>,
        backgroundColor |-> <<1, 11, 1, 10, 1, 15, 15, 15>>]
  ELSE [outlierDataPointColor |-> <<0, 0, 0, 0, 15, 15, 15, 15>>,
        backgroundColor |-> <<15, 15, 15, 15, 15, 15, 15, 15>>]

\* config.get(key)
get(cfg, key) ==
  IF key \in DOMAIN cfg.allModes THEN cfg.allModes[key]
  ELSE IF hasDefault(key) THEN defaultOf(cfg, key)
  ELSE IF key \in DOMAIN modeValues(cfg) THEN modeValues(cfg)[key]
  ELSE IF key \in DOMAIN modeDefaults(cfg) THEN modeDefaults(cfg)[key]
  ELSE undefined

\* config.get(key) !== undefined, for a key without a default in any mode
\* (the keys <family>_Color, _OutlierColor, _Diameter, _OutlierDiameter)
isSet(cfg, key) ==
  \/ key \in DOMAIN cfg.allModes
  \/ IF get(cfg, "darkMode") THEN key \in DOMAIN cfg.darkMode
                             ELSE key \in DOMAIN cfg.lightMode

\* config.get(key) for such a key, when it is set
getSet(cfg, key) ==
  IF key \in DOMAIN cfg.allModes THEN cfg.allModes[key]
  ELSE IF get(cfg, "darkMode") THEN cfg.darkMode[key] ELSE cfg.lightMode[key]

\* key.endsWith("Color")
endsWithColor(key) ==
  key \in {"A_Color", "A_OutlierColor", "B_Color", "B_OutlierColor",
           "outlierDataPointColor", "backgroundColor"}

\* key.endsWith("Diameter")
endsWithDiameter(key) ==
  key \in {"A_Diameter", "A_OutlierDiameter", "B_Diameter",
           "B_OutlierDiameter", "outlierDataPointDiameter", "chunkDiameter"}

\* key.includes("_")
includesUnderscore(key) ==
  key \in {"A_Color", "A_OutlierColor", "A_Diameter", "A_OutlierDiameter",
           "B_Color", "B_OutlierColor", "B_Diameter", "B_OutlierDiameter"}

\* const triggersChunkReload
triggersChunkReload ==
  {"tissueX", "tissueY", "tissueZ", "chunkDiameter", "chunkLoadRange",
   "scale", "darkMode", "shownFamilies"}

\* validators[key], named by what the validator expects; "none" when
\* validators[key] is undefined
validatorOf(key) ==
  CASE key \in {"orbitMode", "darkMode"} -> "boolean"
    [] key \in {"x", "y", "z"} -> "number"
    [] key = "scale" -> "positive"
    [] key \in {"chunkDiameter", "chunkLoadRange"} -> "positiveInteger"
    [] key = "shownFamilies" -> "nullOrArray"
    [] OTHER -> "none"

\* v <= 0 for a number v = n, or n + 0.5 when half
notPositive(v) == IF v.half THEN v.n < 0 ELSE v.n <= 0

\* whether the validator of a kind throws on the value v
throws(kind, v) ==
  CASE kind = "boolean" -> v.type # "boolean"
    [] kind = "number" -> v.type # "number"
    [] kind = "positive" -> v.type # "number" \/ notPositive(v)
    [] kind = "positiveInteger" ->
         \/ ~(v.type = "number" /\ ~v.half)
         \/ notPositive(v)
    [] kind = "nullOrArray" -> v.type # "null" \/ v.type # "array"

\* validate(key, value): valid when it returns true.  A validator that
\* throws is caught and logged.  In the branch of key.endsWith("Diameter")
\* the name v is not declared: typeof v is "undefined", and the template
\* string of the console.error call throws a ReferenceError before anything
\* is logged.
validate(key, value) ==
  IF validatorOf(key) # "none"
  THEN [valid |-> ~throws(validatorOf(key), value),
        reported |-> throws(validatorOf(key), value), raised |-> FALSE]
  ELSE IF endsWithDiameter(key)
       THEN [valid |-> FALSE, reported |-> FALSE, raised |-> TRUE]
       ELSE [valid |-> FALSE, reported |-> TRUE, raised |-> FALSE]

\* what the store keeps of a value: its content
contentOf(value) ==
  CASE value.type = "number" -> IF value.half THEN value ELSE value.n
    [] value.type = "boolean" -> value.b
    [] value.type = "string" -> value.s
    [] value.type = "array" -> value.a
    [] value.type = "null" -> null

\* the three assignments of config.set
stored(cfg, key, value) ==
  IF hasDefault(key) \/ ~endsWithColor(key)
  THEN [cfg EXCEPT !.allModes = (key :> contentOf(value)) @@ @]
  ELSE IF get(cfg, "darkMode")
       THEN [cfg EXCEPT !.darkMode = (key :> contentOf(value)) @@ @]
       ELSE [cfg EXCEPT !.lightMode = (key :> contentOf(value)) @@ @]

\* the entries of callbacks for a key (none or one)
callbacksOf(cfg, key) == SelectSeq(cfg.callbacks, LAMBDA c : c.key = key)

\* the callback the store registers for darkMode: it calls every other
\* callback with config.get of its key, in the order of Object.entries, and
\* dispatches chunkReload
onDarkModeSwitch(cfg) ==
  LET others == SelectSeq(cfg.callbacks, LAMBDA c : c.key # "darkMode")
  IN  [called |-> [i \in DOMAIN others |->
                     <<others[i].callback, get(cfg, others[i].key)>>],
       events |-> <<"darkMode">>]

\* callbacks[key]?.(value): the calls made, <<callback, argument>>, and the
\* chunkReload events dispatched
invoked(cfg, key, value) ==
  IF callbacksOf(cfg, key) = <<>> THEN [called |-> <<>>, events |-> <<>>]
  ELSE IF callbacksOf(cfg, key)[1].callback = "onDarkModeSwitch"
       THEN [called |-> <<<<"onDarkModeSwitch", contentOf(value)>>>>
                          \o onDarkModeSwitch(cfg).called,
             events |-> onDarkModeSwitch(cfg).events]
       ELSE [called |-> <<<<callbacksOf(cfg, key)[1].callback,
                            contentOf(value)>>>>,
             events |-> <<>>]

\* if (key.includes("_") || triggersChunkReload.includes(key)) dispatchEvent
dispatched(key, triggers) ==
  IF includesUnderscore(key) \/ key \in triggers THEN <<key>> ELSE <<>>

\* the outcome of a call of the store: the store after it, the callbacks
\* called, the chunkReload events dispatched (by their detail.setting),
\* whether console.error was called and whether the call threw
outcome(cfg, called, events, reported, raised) ==
  [config |-> cfg, called |-> called, events |-> events,
   reported |-> reported, raised |-> raised]

\* the part of config.set in if (runCallback), on the store after the
\* assignment
notified(cfg, key, value) ==
  outcome(cfg, invoked(cfg, key, value).called,
          invoked(cfg, key, value).events
            \o dispatched(key, triggersChunkReload),
          FALSE, FALSE)

\* config.set(key, value, runCallback)
set(cfg, key, value, runCallback) ==
  IF ~validate(key, value).valid
  THEN outcome(cfg, <<>>, <<>>, validate(key, value).reported,
               validate(key, value).raised)
  ELSE IF runCallback THEN notified(stored(cfg, key, value), key, value)
       ELSE outcome(stored(cfg, key, value), <<>>, <<>>, FALSE, FALSE)

setSetterCallbackReplacing(cfg, key, callback) ==
  outcome([cfg EXCEPT !.callbacks =
             Append(SelectSeq(@, LAMBDA c : c.key # key),
                    [key |-> key, callback |-> callback])],
          <<<<callback, get(cfg, key)>>>>, <<>>, FALSE, FALSE)

\* config.setSetterCallback(key, callback)
setSetterCallback(cfg, key, callback) ==
  IF callbacksOf(cfg, key) = <<>>
  THEN outcome([cfg EXCEPT !.callbacks =
                  Append(@, [key |-> key, callback |-> callback])],
               <<<<callback, get(cfg, key)>>>>, <<>>, FALSE, FALSE)
  ELSE outcome(cfg, <<>>, <<>>, FALSE, TRUE)

----------------------------------------------------------------------------
(* Data handler *)

\* handler.families: Object.keys(data)
families(d) == d.keys

\* allTissueData[tissue]?.[i]
tissueValue(allTissueData, tissue, i) ==
  IF tissue \in DOMAIN allTissueData /\ i \in DOMAIN allTissueData[tissue]
  THEN allTissueData[tissue][i]
  ELSE undefined

\* handler.iterGenes: the records the generator yields, in order
iterGenes(d, family, tissueX, tissueY, tissueZ) ==
  IF family \notin Range(d.keys) THEN <<>>
  ELSE LET familyData == d.of[family]
       IN  [i \in DOMAIN familyData.genes |->
              [genes       |-> familyData.genes[i],
               is_outlier  |-> familyData.is_outlier[i],
               coordinates |-> <<tissueValue(familyData.tissues, tissueX, i),
                                 tissueValue(familyData.tissues, tissueY, i),
                                 tissueValue(familyData.tissues, tissueZ, i)>>]]

\* the bit of weight w (a power of two) of a ^ b
xorBit(a, b, w) == (((a \div w) + (b \div w)) % 2) * w

\* bitwise exclusive or of two 16 bit words
xor16(a, b) ==
  xorBit(a, b, 1) + xorBit(a, b, 2) + xorBit(a, b, 4) + xorBit(a, b, 8)
  + xorBit(a, b, 16) + xorBit(a, b, 32) + xorBit(a, b, 64)
  + xorBit(a, b, 128) + xorBit(a, b, 256) + xorBit(a, b, 512)
  + xorBit(a, b, 1024) + xorBit(a, b, 2048) + xorBit(a, b, 4096)
  + xorBit(a, b, 8192) + xorBit(a, b, 16384) + xorBit(a, b, 32768)

\* (crc >>> 1) ^ (crc & 1 ? 0xEDB88320 : 0) for the halves hi, lo of crc >>> 1
\* and the bit crc & 1
crcXor(hi, lo, bit) ==
  IF bit = 1
  THEN [hi |-> xor16(hi, 60856), lo |-> xor16(lo, 33568)]
  ELSE [hi |-> hi, lo |-> lo]

\* crc = (crc >>> 1) ^ (crc & 1 ? 0xEDB88320 : 0); a 32 bit word is kept
\* as its two halves [hi, lo]
crcShift(crc) ==
  crcXor(crc.hi \div 2, (crc.lo \div 2) + (crc.hi % 2) * 32768, crc.lo % 2)

\* the loop counter j beside a word
withJ(crc, j) == [hi |-> crc.hi, lo |-> crc.lo, j |-> j]

\* for (let j = 0; j < 8; j++) crc = ..., from j = crc.j on
RECURSIVE crcBits(_)
crcBits(crc) ==
  IF crc.j = 8 THEN crc
  ELSE crcBits(withJ(crcShift(crc), crc.j + 1))

\* the loop counter i beside a word
withI(crc, i) == [hi |-> crc.hi, lo |-> crc.lo, i |-> i]

\* for (let i = 0; i < str.length; i++) { crc ^= str.charCodeAt(i); ... },
\* from i = crc.i on
RECURSIVE crcLoop(_, _)
crcLoop(crc, codes) ==
  IF crc.i = Len(codes) THEN crc
  ELSE crcLoop(withI(crcBits([hi |-> crc.hi,
                              lo |-> xor16(crc.lo, codes[crc.i + 1]),
                              j  |-> 0]),
                     crc.i + 1),
               codes)

\* crc ^ 0xFFFFFFFF
crcNot(crc) == [hi |-> xor16(crc.hi, 65535), lo |-> xor16(crc.lo, 65535)]

\* crc32(str), str given by its char codes
crc32(codes) ==
  crcNot(crcLoop([hi |-> 65535, lo |-> 65535, i |-> 0], codes))

\* str.charCodeAt(i) for the family names of the sample data
charCodes(family) ==
  CASE family = "A" -> <<65>>
    [] family = "B" -> <<66>>
    [] family = "C" -> <<67>>
    [] OTHER -> <<>>

\* n.toString(base) for n >= 0: the digits, most significant first
RECURSIVE toStringRadix(_, _)
toStringRadix(n, base) ==
  IF n < base THEN <<n>>
  ELSE toStringRadix(n \div base, base) \o <<n % base>>

\* str.padStart(length, "0") for a string of digits
RECURSIVE padStart(_, _)
padStart(digits, length) ==
  IF Len(digits) >= length THEN digits
  ELSE padStart(<<0>> \o digits, length)

\* value.toString(8).padStart(6, "0")
octalDigits(value) == padStart(toStringRadix(value, 8), 6)

\* crc32(family) & (8**6-1): the low 18 bits
mask18(crc) == (crc.hi % 4) * 65536 + crc.lo

RECURSIVE shiftDigitsBright(_, _)
shiftDigitsBright(oct, shift) ==
  IF oct = <<>> THEN <<>>
  ELSE toStringRadix(Head(oct) + shift + 2, 16)
         \o shiftDigitsBright(Tail(oct), shift)

\* hexString.replace(/[0-7]/g, char => (Number(char) + shift).toString(16)):
\* every digit is replaced by the digits of the sum; toUpperCase changes
\* the letters, not the values of the digits
RECURSIVE shiftDigits(_, _)
shiftDigits(oct, shift) ==
  IF oct = <<>> THEN <<>>
  ELSE toStringRadix(Head(oct) + shift, 16) \o shiftDigits(Tail(oct), shift)

\* handler.getColor for a family name given by its char codes, with
\* config.get("darkMode") = darkMode: the hexadecimal digits after the "#"
getColorOfCodes(codes, darkMode) ==
  shiftDigits(octalDigits(mask18(crc32(codes))), IF darkMode THEN 3 ELSE 7)

\* handler.getColor(family)
getColor(family, darkMode) == getColorOfCodes(charCodes(family), darkMode)

\* getColor of the family names in use, computed once: light, dark
colorTable ==
  [A |-> <<getColor("A", FALSE), getColor("A", TRUE)>>,
   B |-> <<getColor("B", FALSE), getColor("B", TRUE)>>,
   C |-> <<getColor("C", FALSE), getColor("C", TRUE)>>]

----------------------------------------------------------------------------
(* Chunk builder *)

\* config.get("shownFamilies") ?? dataHandler.families
familiesToShow(d, cfg) ==
  IF "shownFamilies" \in DOMAIN cfg.allModes
  THEN cfg.allModes["shownFamilies"]
  ELSE families(d)

\* the records calculateChunks visits, in the order of its two loops, each
\* with the family of the outer loop
RECURSIVE pointSource(_, _, _)
pointSource(d, cfg, fams) ==
  IF fams = <<>> THEN <<>>
  ELSE LET family == Head(fams)
           genes  == iterGenes(d, family, get(cfg, "tissueX"),
                               get(cfg, "tissueY"), get(cfg, "tissueZ"))
       IN  [i \in DOMAIN genes |-> [family |-> family, gene |-> genes[i]]]
             \o pointSource(d, cfg, Tail(fams))

inSightLoose(c, pos, diameter, range) ==
  /\ c # NaN
  /\ 2 * Abs(c - pos) <= (2 * range + 1) * diameter

\* Math.abs(c - pos) < sight, sight = (chunkLoadRange + 0.5) * chunkDiameter
inSight(c, pos, diameter, range) ==
  /\ c # NaN
  /\ 2 * Abs(c - pos) < (2 * range + 1) * diameter

countMemberOnce(memberCounts, family) ==
  IF \E j \in DOMAIN memberCounts : memberCounts[j][1] = family
  THEN memberCounts
  ELSE Append(memberCounts, <<family, 1>>)

\* chunks[chunk][1][family] ??= 0; chunks[chunk][1][family]++
\* (memberCounts keeps the insertion order of its keys)
countMember(memberCounts, family) ==
  IF \E j \in DOMAIN memberCounts : memberCounts[j][1] = family
  THEN [j \in DOMAIN memberCounts |->
          IF memberCounts[j][1] = family
          THEN <<family, memberCounts[j][2] + 1>>
          ELSE memberCounts[j]]
  ELSE Append(memberCounts, <<family, 1>>)

\* chunks[chunk] = [[], {}, 0, null, null]
emptyChunk ==
  [dataPoints |-> <<>>, memberCounts |-> <<>>, outlierCount |-> 0,
   sphere |-> null, oct |-> null]

chunkAtFresh(chunkMap, key) == emptyChunk

\* if (chunks[chunk] === undefined) chunks[chunk] = [[], {}, 0, null, null]:
\* the chunk the point is then pushed to
chunkAt(chunkMap, key) ==
  IF key \notin DOMAIN chunkMap THEN emptyChunk ELSE chunkMap[key]

\* one pass of the inner loop body of calculateChunks
addPoint(st, item, pos, diameter, range, scale) ==
  LET scaled == [i \in 1..3 |-> Times(item.gene.coordinates[i], scale)]
      chunk  == getChunkCentroid(scaled, diameter)
      key    == toString(chunk)
      isNew  == key \notin DOMAIN st.chunks
      old    == chunkAt(st.chunks, key)
      active == IF isNew /\ inSight(chunk[1], pos[1], diameter, range)
                         /\ inSight(chunk[2], pos[2], diameter, range)
                         /\ inSight(chunk[3], pos[3], diameter, range)
                THEN Append(st.activeChunks, key)
                ELSE st.activeChunks
      new    == [old EXCEPT
                   !.dataPoints = Append(@, [coordinates |-> scaled,
                                              genes |-> item.gene.genes,
                                              is_outlier |-> item.gene.is_outlier]),
                   !.memberCounts = countMember(@, item.family),
                   !.outlierCount = @ + (IF item.gene.is_outlier THEN 1 ELSE 0)]
  IN  [st EXCEPT !.chunks = (key :> new) @@ @, !.activeChunks = active]

\* the two nested for loops of calculateChunks; st.n counts the records
\* visited so far
RECURSIVE buildLoop(_, _, _, _, _, _)
buildLoop(st, items, pos, diameter, range, scale) ==
  IF st.n = Len(items) THEN st
  ELSE buildLoop([addPoint(st, items[st.n + 1], pos, diameter, range, scale)
                    EXCEPT !.n = st.n + 1],
                 items, pos, diameter, range, scale)

\* calculateChunks(posX, posY, posZ, chunkDiameter, chunkLoadRange):
\* [chunks, activeChunks]
calculateChunks(d, cfg, pos, diameter, range) ==
  buildLoop([chunks |-> <<>>, activeChunks |-> <<>>, n |-> 0],
            pointSource(d, cfg, familiesToShow(d, cfg)),
            pos, diameter, range, get(cfg, "scale"))

----------------------------------------------------------------------------
(* Chunk geometry loader *)

\* BABYLON.Color4.FromHexString of "#RRGGBB" or "#RRGGBBAA", given by the
\* digits after the "#"; channels in 255ths
FromHexString(hex) ==
  [r |-> 16 * hex[1] + hex[2],
   g |-> 16 * hex[3] + hex[4],
   b |-> 16 * hex[5] + hex[6],
   a |-> IF Len(hex) >= 8 THEN 16 * hex[7] + hex[8] ELSE 255]

\* config.get(`${family}_Color`) ?? dataHandler.getColor(family), with
\* getColor as tabulated in colorTable
familyColorOf(cfg, family) ==
  FromHexString(
    IF isSet(cfg, family \o "_Color") THEN getSet(cfg, family \o "_Color")
    ELSE colorTable[family][IF get(cfg, "darkMode") THEN 2 ELSE 1])

\* outlierColorHex === undefined ? familyColor : FromHexString(outlierColorHex)
outlierColorOf(cfg, family) ==
  IF isSet(cfg, family \o "_OutlierColor")
  THEN FromHexString(getSet(cfg, family \o "_OutlierColor"))
  ELSE familyColorOf(cfg, family)

\* config.get(`${family}_Diameter`) ?? 0.25, in quarters of a world unit
diameterOf(cfg, key) == IF isSet(cfg, key) THEN getSet(cfg, key) ELSE 1

\* new Float32Array(n): n zeros
Float32Array(n) == [i \in 1..n |-> 0]

\* buffer[index] = v; a write beyond the end of a typed array is dropped
setAt(buffer, index, v) ==
  IF index + 1 \in DOMAIN buffer THEN [buffer EXCEPT ![index + 1] = v]
  ELSE buffer

fillThinInstanceBuffersTransposed(dimBuffer, dIndex, colorBuffer, cIndex, diameter, p, color) ==
  LET d1 == setAt(dimBuffer, dIndex, diameter)
      d2 == setAt(d1, dIndex + 5, diameter)
      d3 == setAt(d2, dIndex + 10, diameter)
      d4 == setAt(d3, dIndex + 3, p[1])
      d5 == setAt(d4, dIndex + 7, p[2])
      d6 == setAt(d5, dIndex + 11, p[3])
      d7 == setAt(d6, dIndex + 15, 1)
      c1 == setAt(colorBuffer, cIndex, color.r)
      c2 == setAt(c1, cIndex + 1, color.g)
      c3 == setAt(c2, cIndex + 2, color.b)
      c4 == setAt(c3, cIndex + 3, color.a)
  IN  <<d7, c4>>

\* fillThinInstanceBuffers: [dimensionsBuffer, colorBuffer] after the call
fillThinInstanceBuffers(dimBuffer, dIndex, colorBuffer, cIndex, diameter, p, color) ==
  LET d1 == setAt(dimBuffer, dIndex, diameter)
      d2 == setAt(d1, dIndex + 5, diameter)
      d3 == setAt(d2, dIndex + 10, diameter)
      d4 == setAt(d3, dIndex + 12, p[1])
      d5 == setAt(d4, dIndex + 13, p[2])
      d6 == setAt(d5, dIndex + 14, p[3])
      d7 == setAt(d6, dIndex + 15, 1)
      c1 == setAt(colorBuffer, cIndex, color.r)
      c2 == setAt(c1, cIndex + 1, color.g)
      c3 == setAt(c2, cIndex + 2, color.b)
      c4 == setAt(c3, cIndex + 3, color.a)
  IN  <<d7, c4>>

\* the buffers of the outliers after fillThinInstanceBuffers and
\* outlierIndex++
outlierFilled(w, f) ==
  [w EXCEPT !.octDim = f[1], !.octCol = f[2], !.outlierIndex = @ + 1]

\* the buffers of the points that are not outliers after
\* fillThinInstanceBuffers
normalFilled(w, f) == [w EXCEPT !.sphereDim = f[1], !.sphereCol = f[2]]

fillPointSparse(w, cfg, family, index, pointData) ==
  IF pointData.is_outlier
  THEN outlierFilled(w, fillThinInstanceBuffers(
                          w.octDim, w.outlierIndex * 16,
                          w.octCol, w.outlierIndex * 4,
                          diameterOf(cfg, family \o "_OutlierDiameter"),
                          pointData.coordinates,
                          outlierColorOf(cfg, family)))
  ELSE normalFilled(w, fillThinInstanceBuffers(
                         w.sphereDim, index * 16,
                         w.sphereCol, index * 4,
                         diameterOf(cfg, family \o "_Diameter"),
                         pointData.coordinates,
                         familyColorOf(cfg, family)))

\* the body of the inner for loop of loadChunk for pointData =
\* dataPoints[index]
fillPoint(w, cfg, family, index, pointData) ==
  IF pointData.is_outlier
  THEN outlierFilled(w, fillThinInstanceBuffers(
                          w.octDim, w.outlierIndex * 16,
                          w.octCol, w.outlierIndex * 4,
                          diameterOf(cfg, family \o "_OutlierDiameter"),
                          pointData.coordinates,
                          outlierColorOf(cfg, family)))
  ELSE normalFilled(w, fillThinInstanceBuffers(
                         w.sphereDim, (index - w.outlierIndex) * 16,
                         w.sphereCol, (index - w.outlierIndex) * 4,
                         diameterOf(cfg, family \o "_Diameter"),
                         pointData.coordinates,
                         familyColorOf(cfg, family)))

\* the body of the inner for loop of loadChunk, for the member w.i of a
\* family
fillMember(w, cfg, dataPoints, family) ==
  IF w.familyIndex + w.i + 1 \notin DOMAIN dataPoints THEN w
  ELSE fillPoint(w, cfg, family, w.familyIndex + w.i,
                 dataPoints[w.familyIndex + w.i + 1])

\* for (let i = 0; i < chunkMemberCount; i++) from i = w.i on
RECURSIVE fillFamily(_, _, _, _, _)
fillFamily(w, cfg, dataPoints, family, chunkMemberCount) ==
  IF w.i >= chunkMemberCount THEN w
  ELSE fillFamily([fillMember(w, cfg, dataPoints, family)
                     EXCEPT !.i = w.i + 1],
                  cfg, dataPoints, family, chunkMemberCount)

\* familyIndex += chunkMemberCount, and the next entry
nextFamily(w, count) == [w EXCEPT !.familyIndex = @ + count, !.e = @ + 1]

\* Object.entries(memberCounts).forEach(...) from the entry w.e + 1 on
RECURSIVE fillAll(_, _, _, _)
fillAll(w, cfg, dataPoints, entries) ==
  IF w.e = Len(entries) THEN w
  ELSE fillAll(nextFamily(fillFamily([w EXCEPT !.i = 0], cfg, dataPoints,
                                     entries[w.e + 1][1],
                                     entries[w.e + 1][2]),
                          entries[w.e + 1][2]),
               cfg, dataPoints, entries)

disposeNothing(hp, mesh) == hp

\* mesh?.dispose(): the geometry leaves the scene; null and disposed
\* handles are left alone
dispose(hp, mesh) == [id \in DOMAIN hp \ {mesh} |-> hp[id]]

\* the identity of a newly created mesh: one that no mesh of the scene and
\* no handle still held has
newMesh(used) ==
  CHOOSE id \in 1..(Cardinality(used) + 1) :
    /\ id \notin used
    /\ \A other \in 1..(id - 1) : other \in used

\* thinInstanceSetBuffer("matrix", ..) and ("color", ..) on chunkData[i]?.
setBuffers(hp, mesh, matrix, color) ==
  IF mesh \in DOMAIN hp
  THEN [hp EXCEPT ![mesh] = [@ EXCEPT !.matrix = matrix, !.color = color]]
  ELSE hp

createdAlways(count) == TRUE

\* if (sphereColorBuffer.length > 0) / if (outlierCount > 0): whether a
\* base shape is created for a category
created(count) == count > 0

\* for (const mesh of meshes) mesh?.dispose(); ld is [chunkData, heap]
disposeMeshes(chunkData, hp) ==
  [chunkData |-> chunkData,
   heap |-> dispose(dispose(hp, chunkData.sphere), chunkData.oct)]

\* chunkData[3] = mesh, the mesh being new in the scene
sphereCreated(ld, mesh) ==
  [chunkData |-> [ld.chunkData EXCEPT !.sphere = mesh],
   heap |-> (mesh :> [shape |-> "sphere", matrix |-> <<>>, color |-> <<>>])
              @@ ld.heap]

\* if (sphereColorBuffer.length > 0) chunkData[3] = CreateSphere(..);
\* held is the set of handles the other chunks hold
createSphere(ld, held) ==
  IF created(4 * (Len(ld.chunkData.dataPoints) - ld.chunkData.outlierCount))
  THEN sphereCreated(ld, newMesh(DOMAIN ld.heap \cup held
                                   \cup ({ld.chunkData.oct} \ {null})))
  ELSE ld

\* chunkData[4] = mesh, the mesh being new in the scene
polyhedronCreated(ld, mesh) ==
  [chunkData |-> [ld.chunkData EXCEPT !.oct = mesh],
   heap |-> (mesh :> [shape |-> "polyhedron", matrix |-> <<>>,
                      color |-> <<>>]) @@ ld.heap]

\* if (outlierCount > 0) chunkData[4] = CreatePolyhedron(..)
createPolyhedron(ld, held) ==
  IF created(ld.chunkData.outlierCount)
  THEN polyhedronCreated(ld, newMesh(DOMAIN ld.heap \cup held
                                       \cup ({ld.chunkData.sphere} \ {null})))
  ELSE ld

newBuffersSwapped(normalCount, outlierCount) ==
  [sphereDim |-> Float32Array(16 * outlierCount),
   sphereCol |-> Float32Array(4 * outlierCount),
   octDim    |-> Float32Array(16 * normalCount),
   octCol    |-> Float32Array(4 * normalCount),
   familyIndex |-> 0, outlierIndex |-> 0, e |-> 0, i |-> 0]

\* the four buffers as allocated, and the counters of the fill loops
newBuffers(normalCount, outlierCount) ==
  [sphereDim |-> Float32Array(16 * normalCount),
   sphereCol |-> Float32Array(4 * normalCount),
   octDim    |-> Float32Array(16 * outlierCount),
   octCol    |-> Float32Array(4 * outlierCount),
   familyIndex |-> 0, outlierIndex |-> 0, e |-> 0, i |-> 0]

\* the four thinInstanceSetBuffer calls with the filled buffers w
buffersSet(ld, w) ==
  [chunkData |-> ld.chunkData,
   heap |-> setBuffers(setBuffers(ld.heap, ld.chunkData.sphere,
                                  w.sphereDim, w.sphereCol),
                       ld.chunkData.oct, w.octDim, w.octCol)]

\* the buffers are allocated, filled and set
fillAndSet(ld, cfg) ==
  buffersSet(ld,
             fillAll(newBuffers(Len(ld.chunkData.dataPoints)
                                  - ld.chunkData.outlierCount,
                                ld.chunkData.outlierCount),
                     cfg, ld.chunkData.dataPoints, ld.chunkData.memberCounts))

\* loadChunk(scene, chunkData, true) for a chunkData that exists;
\* held is the set of handles the other chunks hold
activate(chunkData, cfg, hp, held) ==
  fillAndSet(createPolyhedron(createSphere(disposeMeshes(chunkData, hp),
                                           held),
                              held),
             cfg)

deactivateKeepHandles(chunkData, hp) ==
  [chunkData |-> chunkData,
   heap |-> dispose(dispose(hp, chunkData.sphere), chunkData.oct)]

\* loadChunk(scene, chunkData, false) for a chunkData that exists
deactivate(chunkData, hp) ==
  [chunkData |-> [chunkData EXCEPT !.sphere = null, !.oct = null],
   heap |-> dispose(dispose(hp, chunkData.sphere), chunkData.oct)]

\* the handles held by the chunks of a chunk map other than the one at key
heldBy(chunkMap, key) ==
  UNION {{chunkMap[k].sphere, chunkMap[k].oct} : k \in DOMAIN chunkMap \ {key}}
    \ {null}

\* the chunk at key and the scene after a call of loadChunk
loaded(st, key, ld) ==
  [st EXCEPT !.chunks = [@ EXCEPT ![key] = ld.chunkData], !.heap = ld.heap]

loadChunkCreating(st, key, state, cfg) ==
  IF key \notin DOMAIN st.chunks
  THEN [st EXCEPT !.chunks = [k \in DOMAIN @ \cup {key} |->
                                IF k = key THEN emptyChunk ELSE @[k]]]
  ELSE loaded(st, key,
              IF state
              THEN activate(st.chunks[key], cfg, st.heap,
                            heldBy(st.chunks, key))
              ELSE deactivate(st.chunks[key], st.heap))

\* loadChunk(scene, chunks[key], state): nothing happens when chunks[key]
\* is undefined; st is [chunks, activeChunks, heap]
loadChunk(st, key, state, cfg) ==
  IF key \notin DOMAIN st.chunks THEN st
  ELSE loaded(st, key,
              IF state
              THEN activate(st.chunks[key], cfg, st.heap,
                            heldBy(st.chunks, key))
              ELSE deactivate(st.chunks[key], st.heap))

----------------------------------------------------------------------------
(* Streaming controller and reload *)

sweepOffsetsShort(dist, diameter) ==
  [n \in 1..((2 * dist) \div diameter) |-> -dist + (n - 1) * diameter]

\* for (let aAxis = -lastChunkDist; aAxis <= lastChunkDist;
\*      aAxis += chunkDiameter): the values aAxis takes, in order
sweepOffsets(dist, diameter) ==
  [n \in 1..((2 * dist) \div diameter + 1) |-> -dist + (n - 1) * diameter]

\* activeChunks.push(triggeredChunkCentroid.toString())
push(st, key) == Append(st.activeChunks, key)

\* const chunkIndex = activeChunks.indexOf(key);
\* if (chunkIndex !== -1) activeChunks.splice(chunkIndex, 1)
removeFirst(list, key) ==
  IF key \notin Range(list) THEN list
  ELSE LET chunkIndex == CHOOSE i \in DOMAIN list :
                           /\ list[i] = key
                           /\ \A j \in 1..(i - 1) : list[j] # key
       IN  SubSeq(list, 1, chunkIndex - 1)
             \o SubSeq(list, chunkIndex + 1, Len(list))

\* activeChunks.push(key) in the state of the callback
pushed(st, key) == [st EXCEPT !.activeChunks = push(st, key)]

\* the splice of the first index of key in the state of the callback
removed(st, key) == [st EXCEPT !.activeChunks = removeFirst(@, key)]

\* triggeredChunkCentroid with the offsets aAxis, bAxis on the two other
\* axes and the value onAxis on the changed axis i
triggered(previous, i, aAxis, bAxis, onAxis) ==
  [[n \in 1..3 |-> 0] EXCEPT ![i] = onAxis,
                             ![(i % 3) + 1] = previous[(i % 3) + 1] + aAxis,
                             ![((i + 1) % 3) + 1] =
                               previous[((i + 1) % 3) + 1] + bAxis]

\* the four statements of the innermost loop on the keys enter and leave
enterAndLeave(st, cfg, enter, leave) ==
  removed(loadChunk(pushed(loadChunk(st, enter, TRUE, cfg), enter),
                    leave, FALSE, cfg),
          leave)

directionForward(currentAxis, axis) == 1

\* direction = currentAxis > axis ? 1 : -1
directionOf(currentAxis, axis) == IF currentAxis > axis THEN 1 ELSE -1

\* the body of the innermost loop of the render callback, for the changed
\* axis i and the offsets aAxis, bAxis on the two other axes
sweepCell(st, cfg, previous, current, i, aAxis, bAxis, dist) ==
  enterAndLeave(
    st, cfg,
    toString(triggered(previous, i, aAxis, bAxis,
                       current[i]
                         + directionOf(current[i], previous[i]) * dist)),
    toString(triggered(previous, i, aAxis, bAxis,
                       previous[i]
                         - directionOf(current[i], previous[i]) * dist)))

sweepPassesAllAxes(previous, current, dist, diameter) ==
  [n \in 1..(3 * Len(sweepOffsets(dist, diameter))
                 * Len(sweepOffsets(dist, diameter))) |->
     <<(n - 1) \div (Len(sweepOffsets(dist, diameter))
                       * Len(sweepOffsets(dist, diameter))) + 1,
       sweepOffsets(dist, diameter)[
         ((n - 1) % (Len(sweepOffsets(dist, diameter))
                       * Len(sweepOffsets(dist, diameter))))
           \div Len(sweepOffsets(dist, diameter)) + 1],
       sweepOffsets(dist, diameter)[
         ((n - 1) % Len(sweepOffsets(dist, diameter))) + 1]>>]

\* the passes of the innermost loop body in one run of the callback:
\* <<i, aAxis, bAxis>> for every changed axis i in the order of forEach,
\* aAxis in the outer and bAxis in the inner loop
sweepPasses(previous, current, dist, diameter) ==
  LET offsets == sweepOffsets(dist, diameter)
      m       == Len(offsets)
      axes    == SelectSeq(<<1, 2, 3>>, LAMBDA i : current[i] # previous[i])
  IN  [n \in 1..(Len(axes) * m * m) |->
         <<axes[(n - 1) \div (m * m) + 1],
           offsets[((n - 1) % (m * m)) \div m + 1],
           offsets[((n - 1) % m) + 1]>>]

\* chunkCentroid.forEach((axis, i) => ...); st.n counts the passes made
RECURSIVE sweep(_, _, _, _, _, _)
sweep(st, cfg, previous, current, passes, dist) ==
  IF st.n = Len(passes) THEN st
  ELSE LET pass == passes[st.n + 1]
       IN  sweep([sweepCell(st, cfg, previous, current, pass[1], pass[2],
                            pass[3], dist) EXCEPT !.n = st.n + 1],
                 cfg, previous, current, passes, dist)

\* for (const chunk of keys) loadChunk(scene, chunks[chunk], state);
\* st.n counts the keys visited
RECURSIVE loadAll(_, _, _, _)
loadAll(st, keys, state, cfg) ==
  IF st.n = Len(keys) THEN st
  ELSE loadAll([loadChunk(st, keys[st.n + 1], state, cfg)
                  EXCEPT !.n = st.n + 1],
               keys, state, cfg)

clearNothing(st, cfg) == st

\* clearChunks(scene, chunks, activeChunks)
clearChunks(st, cfg) ==
  loadAll([st EXCEPT !.n = 0], st.activeChunks, FALSE, cfg)

\* for (const chunk of activeChunks) loadChunk(scene, chunks[chunk]) on
\* the result of calculateChunks; hp is the scene's geometry so far
loadBuilt(built, cfg, hp) ==
  loadAll([chunks |-> built.chunks, activeChunks |-> built.activeChunks,
           heap |-> hp, n |-> 0],
          built.activeChunks, TRUE, cfg)

\* calculateChunks followed by loadChunk of every initially active chunk,
\* as in plotData and in reloadChunks
buildAndLoad(d, cfg, pos, diameter, range, hp) ==
  loadBuilt(calculateChunks(d, cfg, pos, diameter, range), cfg, hp)

reloadChunksAppending(st, d, cfg, pos) ==
  [st |-> [buildAndLoad(d, cfg, pos, get(cfg, "chunkDiameter"),
                        get(cfg, "chunkLoadRange"), clearChunks(st, cfg).heap)
             EXCEPT !.activeChunks = st.activeChunks \o @],
   chunkDiameter |-> get(cfg, "chunkDiameter"),
   chunkLoadRange |-> get(cfg, "chunkLoadRange")]

\* reloadChunks(scene, chunks, activeChunks):
\* [newChunks, newActiveChunks, chunkDiameter, chunkLoadRange] and the scene
reloadChunks(st, d, cfg, pos) ==
  [st |-> buildAndLoad(d, cfg, pos, get(cfg, "chunkDiameter"),
                       get(cfg, "chunkLoadRange"), clearChunks(st, cfg).heap),
   chunkDiameter |-> get(cfg, "chunkDiameter"),
   chunkLoadRange |-> get(cfg, "chunkLoadRange")]

assignedUnscaled(r, n) ==
  [chunks |-> r.st.chunks, activeChunks |-> r.st.activeChunks,
   heap |-> r.st.heap, chunkDiameter |-> r.chunkDiameter,
   chunkLoadRange |-> r.chunkLoadRange,
   lastChunkDist |-> r.chunkLoadRange, n |-> n]

\* [chunks, activeChunks, chunkDiameter, chunkLoadRange] = r;
\* lastChunkDist = chunkLoadRange * chunkDiameter: the closure of plotData
\* after the listener, r being what reloadChunks returned
assigned(r, n) ==
  [chunks |-> r.st.chunks, activeChunks |-> r.st.activeChunks,
   heap |-> r.st.heap, chunkDiameter |-> r.chunkDiameter,
   chunkLoadRange |-> r.chunkLoadRange,
   lastChunkDist |-> r.chunkLoadRange * r.chunkDiameter, n |-> n]

\* document.dispatchEvent for each of the events in turn: the listener runs
\* synchronously on the closure cl; cl.n counts the events handled
RECURSIVE dispatchEvents(_, _, _, _, _)
dispatchEvents(cl, d, cfg, pos, events) ==
  IF cl.n = Len(events) THEN cl
  ELSE dispatchEvents(assigned(reloadChunks(cl, d, cfg, pos), cl.n + 1),
                      d, cfg, pos, events)

----------------------------------------------------------------------------
(* Camera: the callbacks setupCamera registers for x, y, z and scale, the   *)
(* callback of the store for darkMode, and config.set with these callbacks *)
(* and the chunkReload listener of plotData in place.  orbitMode is off.   *)
(* A world w is the store, the position of the camera, the closure of      *)
(* plotData and the chunkReload events dispatched so far, each with the    *)
(* camera position its listener read.                                      *)

\* a number handed to the store
asNumber(n) == [type |-> "number", n |-> n, half |-> FALSE]

\* if (..) document.dispatchEvent(new CustomEvent("chunkReload", ..)), for
\* settings = dispatched(key, ..), with the setting or empty: the listener
\* of plotData runs at once and reads the camera position
dispatchReloads(w, d, settings) ==
  IF settings = <<>> THEN w
  ELSE [w EXCEPT
          !.cl = assigned(reloadChunks(w.cl, d, w.config, w.cam), 0),
          !.events = Append(@, [setting |-> settings[1], view |-> w.cam])]

\* "xyz".indexOf(axis) + 1
axisIndex(axis) == CASE axis = "x" -> 1 [] axis = "y" -> 2 [] axis = "z" -> 3

\* the callback of x, y or z: camera.position[axis] = position * scale
positionCallback(w, axis, position) ==
  [w EXCEPT !.cam[axisIndex(axis)] = position * get(w.config, "scale")]

\* config.set(axis, value, runCallback) for the keys x, y, z
setPosition(w, d, axis, value, runCallback) ==
  IF ~validate(axis, value).valid THEN w
  ELSE IF ~runCallback THEN [w EXCEPT !.config = stored(@, axis, value)]
  ELSE dispatchReloads(
         positionCallback([w EXCEPT !.config = stored(@, axis, value)],
                          axis, contentOf(value)),
         d, dispatched(axis, triggersChunkReload))

\* config.set(axis, config.get(axis))
resetPosition(w, d, axis) ==
  setPosition(w, d, axis, asNumber(get(w.config, axis)), TRUE)

\* the callback of scale: config.set("x", config.get("x")), then y, then z
scaleCallback(w, d) ==
  resetPosition(resetPosition(resetPosition(w, d, "x"), d, "y"), d, "z")

setScaleNotifying(w, d, value, runCallback) ==
  IF ~validate("scale", value).valid THEN w
  ELSE dispatchReloads(
         scaleCallback([w EXCEPT !.config = stored(@, "scale", value)], d),
         d, dispatched("scale", triggersChunkReload))

setScaleEventFirst(w, d, value, runCallback) ==
  IF ~validate("scale", value).valid THEN w
  ELSE IF ~runCallback THEN [w EXCEPT !.config = stored(@, "scale", value)]
  ELSE scaleCallback(
         dispatchReloads([w EXCEPT !.config = stored(@, "scale", value)],
                         d, dispatched("scale", triggersChunkReload)),
         d)

\* config.set("scale", value, runCallback)
setScale(w, d, value, runCallback) ==
  IF ~validate("scale", value).valid THEN w
  ELSE IF ~runCallback THEN [w EXCEPT !.config = stored(@, "scale", value)]
  ELSE dispatchReloads(
         scaleCallback([w EXCEPT !.config = stored(@, "scale", value)], d),
         d, dispatched("scale", triggersChunkReload))

\* the callback of darkMode: every other callback is called with config.get
\* of its key (x, y, z, then scale, in the order of their registration),
\* then chunkReload is dispatched
darkModeCallback(w, d) ==
  dispatchReloads(
    scaleCallback(
      positionCallback(
        positionCallback(
          positionCallback(w, "x", get(w.config, "x")),
          "y", get(w.config, "y")),
        "z", get(w.config, "z")),
      d),
    d, <<"darkMode">>)

\* config.set("darkMode", value, runCallback)
setDarkMode(w, d, value, runCallback) ==
  IF ~validate("darkMode", value).valid THEN w
  ELSE IF ~runCallback THEN [w EXCEPT !.config = stored(@, "darkMode", value)]
  ELSE dispatchReloads(
         darkModeCallback([w EXCEPT !.config = stored(@, "darkMode", value)],
                          d),
         d, dispatched("darkMode", triggersChunkReload))

\* the render callback of setupCamera: config.set("x", position.x / scale,
\* false), then y, then z, for a camera position that is a multiple of scale
writeBack(w, d) ==
  setPosition(
    setPosition(
      setPosition(w, d, "x", asNumber(w.cam[1] \div get(w.config, "scale")),
                  FALSE),
      d, "y", asNumber(w.cam[2] \div get(w.config, "scale")), FALSE),
    d, "z", asNumber(w.cam[3] \div get(w.config, "scale")), FALSE)

----------------------------------------------------------------------------
(* Inputs *)

\* one family of the sample data: its genes, their outlier flags and one
\* value array per tissue; the Lung array lacks its last cut values
MkFamily(family, g, cut) ==
  [genes      |-> [i \in DOMAIN g |-> <<family, i>>],
   is_outlier |-> [i \in DOMAIN g |-> g[i][2]],
   tissues    |-> [Liver |-> [i \in DOMAIN g |-> g[i][1][1]],
                   Heart |-> [i \in DOMAIN g |-> g[i][1][2]],
                   Lung  |-> [i \in 1..(IF Len(g) > cut THEN Len(g) - cut ELSE 0)
                                |-> g[i][1][3]]]]

\* the lists of at most n genes, a gene being <<raw vector, outlier flag>>
GeneLists(genes, n) == UNION {[1..m -> genes] : m \in 0..n}

DataSets(genes, nA, nB, cuts) ==
  {[keys |-> <<"A", "B">>,
    of   |-> [A |-> MkFamily("A", gA, cut), B |-> MkFamily("B", gB, 0)]] :
     gA \in GeneLists(genes, nA), gB \in GeneLists(genes, nB), cut \in cuts}

\* the store after setupConfig: values.allModes as imported from the URL
\* and the darkMode callback the store registers itself
ConfigFor(diameter, range, scale, tissueX, shown) ==
  LET base == [chunkDiameter |-> diameter, chunkLoadRange |-> range,
               scale |-> scale, tissueX |-> tissueX]
  IN  [allModes |-> IF shown = <<"all">> THEN base
                    ELSE ("shownFamilies" :> shown) @@ base,
       lightMode |-> <<>>, darkMode |-> <<>>, prefersDark |-> FALSE,
       callbacks |-> <<[key |-> "darkMode", callback |-> "onDarkModeSwitch"]>>]

----------------------------------------------------------------------------
(* Specification of the grid indexer alone: getChunkCentroid is applied to *)
(* a position, and then to its own result.                                 *)

Positions ==
  (-MaxCoord..MaxCoord) \X (-MaxCoord..MaxCoord) \X (-MaxCoord..MaxCoord)

InitCentroid ==
  /\ data = <<>>
  /\ config = <<>>
  /\ cam \in Positions
  /\ chunkDiameter \in 1..MaxDiameter
  /\ chunkLoadRange = 0
  /\ lastChunkDist = 0
  /\ chunks = <<>>
  /\ activeChunks = <<>>
  /\ chunkCentroid = cam
  /\ heap = <<>>
  /\ pc = "raw"

\* chunkCentroid = getChunkCentroid(position, chunkDiameter)
SnapOnce ==
  /\ pc = "raw"
  /\ chunkCentroid' = getChunkCentroid(cam, chunkDiameter)
  /\ pc' = "once"
  /\ UNCHANGED <<data, config, cam, chunkDiameter, chunkLoadRange,
                 lastChunkDist, chunks, activeChunks, heap>>

\* getChunkCentroid applied to a centroid
SnapTwice ==
  /\ pc = "once"
  /\ chunkCentroid' = getChunkCentroid(chunkCentroid, chunkDiameter)
  /\ pc' = "twice"
  /\ UNCHANGED <<data, config, cam, chunkDiameter, chunkLoadRange,
                 lastChunkDist, chunks, activeChunks, heap>>

NextCentroid == SnapOnce \/ SnapTwice

SpecCentroid == InitCentroid /\ [][NextCentroid]_vars

\* C6: getChunkCentroid is idempotent: applying it to a centroid it has
\* returned, with the same diameter, gives that centroid again.
C6_Idempotent ==
  [][pc = "once" => chunkCentroid' = chunkCentroid]_vars

\* the second application has run on a position that the first one moved
C6_Witness ==
  /\ pc = "twice"
  /\ \A i \in 1..3 : chunkCentroid[i] # cam[i]

\* C7: every coordinate c of getChunkCentroid(p, d) is an integer multiple
\* of d, and the matching coordinate a of p lies in the cube centred on c:
\* c - d/2 <= a < c + d/2.
C7_MultipleAndContains ==
  pc = "once" =>
    \A i \in 1..3 :
      /\ chunkCentroid[i] % chunkDiameter = 0
      /\ 2 * chunkCentroid[i] - chunkDiameter <= 2 * cam[i]
      /\ 2 * cam[i] < 2 * chunkCentroid[i] + chunkDiameter

\* a position on the lower face of its cube on one axis, strictly inside on
\* another, and in a cube that is not the one at the origin
C7_Witness ==
  /\ pc = "once"
  /\ 2 * cam[1] = 2 * chunkCentroid[1] - chunkDiameter
  /\ cam[2] > chunkCentroid[2]
  /\ chunkCentroid[3] < 0

----------------------------------------------------------------------------
(* Specification of the chunk builder alone: calculateChunks is run once   *)
(* on a viewpoint, a configuration and a point source.                     *)

BuildViews == {<<0, 0, 0>>, <<-1, 3, 1>>, <<5, -5, 2>>}
BuildDiameters == {2, MaxBuildDiameter, 10}
BuildShown == {<<"all">>, <<"B", "A">>, <<"A", "C", "A">>}

\* genes of the sample data: <<raw coordinate vector, outlier flag>>
BuildGenes == {<<<<4, 4, 4>>, FALSE>>, <<<<4, 4, 4>>, TRUE>>,
               <<<<0, -1, 1>>, TRUE>>, <<<<-3, 2, 0>>, FALSE>>}

InitBuild ==
  /\ data \in DataSets(BuildGenes, MaxGenes, 1, 0..1)
  /\ \E diameter \in BuildDiameters, range \in {1, MaxRange},
        scale \in {1, MaxScale}, tissueX \in {"Liver", "Brain"},
        shown \in BuildShown :
       config = ConfigFor(diameter, range, scale, tissueX, shown)
  /\ cam \in BuildViews
  /\ chunkDiameter = get(config, "chunkDiameter")
  /\ chunkLoadRange = get(config, "chunkLoadRange")
  /\ lastChunkDist = chunkLoadRange * chunkDiameter
  /\ chunks = <<>>
  /\ activeChunks = <<>>
  /\ chunkCentroid = <<0, 0, 0>>
  /\ heap = <<>>
  /\ pc = "start"

Build ==
  /\ pc = "start"
  /\ LET built == calculateChunks(data, config, cam, chunkDiameter, chunkLoadRange)
     IN  /\ chunks' = built.chunks
         /\ activeChunks' = built.activeChunks
  /\ pc' = "built"
  /\ UNCHANGED <<data, config, cam, chunkDiameter, chunkLoadRange,
                 lastChunkDist, chunkCentroid, heap>>

NextBuild == Build

SpecBuild == InitBuild /\ [][NextBuild]_vars

\* the input point sequence of the build: the records of the point source
\* in source order, each with its coordinates multiplied by scale
BuildInput ==
  LET items == pointSource(data, config, familiesToShow(data, config))
  IN  [n \in DOMAIN items |->
         [family |-> items[n].family,
          point  |-> [coordinates |->
                        [i \in 1..3 |-> Times(items[n].gene.coordinates[i],
                                              get(config, "scale"))],
                      genes |-> items[n].gene.genes,
                      is_outlier |-> items[n].gene.is_outlier]]]

\* the points of an input sequence
PointsOf(input) == [n \in DOMAIN input |-> input[n].point]

\* the key of the chunk a point belongs to
KeyOf(point) == toString(getChunkCentroid(point.coordinates, chunkDiameter))

\* C3: after calculateChunks every input point is in exactly one chunk's
\* point sequence, exactly once, in source order within the chunk, and the
\* key of that chunk is getChunkCentroid(coordinates * scale, chunkDiameter):
\* the point sequence of the chunk at a key is the subsequence of the input
\* points that have this key, and there is no other chunk.
C3_Partition ==
  pc = "built" =>
    LET points == PointsOf(BuildInput)
    IN  /\ DOMAIN chunks = {KeyOf(points[n]) : n \in DOMAIN points}
        /\ \A key \in DOMAIN chunks :
             chunks[key].dataPoints =
               SelectSeq(points, LAMBDA point : KeyOf(point) = key)

\* a build of three points over two chunks, where the two points of one
\* chunk are separated in the source by the point of the other
C3_Witness ==
  /\ pc = "built"
  /\ LET points == PointsOf(BuildInput)
     IN  /\ Len(points) = 3
         /\ Cardinality(DOMAIN chunks) = 2
         /\ KeyOf(points[1]) = KeyOf(points[3])
         /\ KeyOf(points[1]) # KeyOf(points[2])

\* |c - view| < (chunkLoadRange + 0.5) * chunkDiameter on one axis
C4_Near(c, view) ==
  /\ c # NaN
  /\ 2 * Abs(c - view) < (2 * chunkLoadRange + 1) * chunkDiameter

\* C4: calculateChunks puts a key in the initial active set if and only if
\* the chunk is not empty and |c_i - view_i| < (chunkLoadRange + 0.5) *
\* chunkDiameter on all three axes, and each key at most once; with diameter
\* 10, range 1, viewpoint (0,0,0) and one point at (4,4,4), the chunk
\* (0,0,0) exists and is initially active.
C4_InitialActive ==
  pc = "built" =>
    /\ \A key \in DOMAIN chunks \cup Range(activeChunks) :
         key \in Range(activeChunks) <=>
           /\ key \in DOMAIN chunks
           /\ chunks[key].dataPoints # <<>>
           /\ \A i \in 1..3 : C4_Near(key[i], cam[i])
    /\ \A m, n \in DOMAIN activeChunks :
         m # n => activeChunks[m] # activeChunks[n]
    /\ ( /\ chunkDiameter = 10
         /\ chunkLoadRange = 1
         /\ cam = <<0, 0, 0>>
         /\ \E n \in DOMAIN BuildInput :
              BuildInput[n].point.coordinates = <<4, 4, 4>> )
       => /\ <<0, 0, 0>> \in DOMAIN chunks
          /\ <<0, 0, 0>> \in Range(activeChunks)

\* the build of the scenario: diameter 10, range 1, viewpoint (0,0,0) and
\* the single point (4,4,4), whose chunk (0,0,0) is the active set
C4_Witness ==
  /\ pc = "built"
  /\ chunkDiameter = 10
  /\ chunkLoadRange = 1
  /\ cam = <<0, 0, 0>>
  /\ Len(BuildInput) = 1
  /\ BuildInput[1].point.coordinates = <<4, 4, 4>>
  /\ activeChunks = << <<0, 0, 0>> >>

\* the records of the point source that have all three coordinates
CompleteInput ==
  LET items == pointSource(data, config, familiesToShow(data, config))
  IN  SelectSeq(items, LAMBDA item :
                  \A i \in 1..3 : item.gene.coordinates[i] # undefined)

\* C5: a point with a missing coordinate is skipped by the build: it is in
\* no chunk's point sequence, it creates no chunk and changes no count, so
\* the result is the one of building the complete points alone.
C5_MissingSkipped ==
  pc = "built" =>
    LET skipped == buildLoop([chunks |-> <<>>, activeChunks |-> <<>>,
                              n |-> 0],
                             CompleteInput, cam, chunkDiameter,
                             chunkLoadRange, get(config, "scale"))
    IN  /\ chunks = skipped.chunks
        /\ activeChunks = skipped.activeChunks
        /\ \A key \in DOMAIN chunks :
             /\ \A i \in 1..3 : key[i] # NaN
             /\ \A n \in DOMAIN chunks[key].dataPoints :
                  \A i \in 1..3 :
                    chunks[key].dataPoints[n].coordinates[i] # NaN

\* memberCounts[family] ?? 0 of a chunk
CountOf(memberCounts, family) ==
  IF \E j \in DOMAIN memberCounts : memberCounts[j][1] = family
  THEN memberCounts[CHOOSE j \in DOMAIN memberCounts :
                      memberCounts[j][1] = family][2]
  ELSE 0

\* the family names calculateChunks can be handed in this specification
BuildFamilies == {"A", "B", "C"}

\* the positions of a point sequence that hold a gene of a family
FamilyPoints(dataPoints, family) ==
  {n \in DOMAIN dataPoints : dataPoints[n].genes[1] = family}

\* C26: after calculateChunks the per-family counts of every chunk add up to
\* the length of its point sequence, the count of each family is the number
\* of points of that family in the sequence, and the outlier count is the
\* number of points of the sequence flagged is_outlier.
C26_CountsMatchPoints ==
  pc = "built" =>
    \A key \in DOMAIN chunks :
      /\ \A j \in DOMAIN chunks[key].memberCounts :
           chunks[key].memberCounts[j][1] \in BuildFamilies
      /\ CountOf(chunks[key].memberCounts, "A")
           + CountOf(chunks[key].memberCounts, "B")
           + CountOf(chunks[key].memberCounts, "C")
           = Len(chunks[key].dataPoints)
      /\ \A family \in BuildFamilies :
           CountOf(chunks[key].memberCounts, family)
             = Cardinality(FamilyPoints(chunks[key].dataPoints, family))
      /\ chunks[key].outlierCount
           = Cardinality({n \in DOMAIN chunks[key].dataPoints :
                            chunks[key].dataPoints[n].is_outlier})

\* a chunk with points of two families, more than one of a family, some of
\* them outliers and some not
C26_Witness ==
  /\ pc = "built"
  /\ \E key \in DOMAIN chunks :
       /\ Len(chunks[key].memberCounts) = 2
       /\ CountOf(chunks[key].memberCounts, "A") >= 2
       /\ chunks[key].outlierCount >= 1
       /\ chunks[key].outlierCount < Len(chunks[key].dataPoints)

----------------------------------------------------------------------------
(* Specification of the chunk geometry loader alone: calculateChunks has   *)
(* built a chunk map, and loadChunk is called on its chunks in any order   *)
(* with state true or false.  pc records the last call and whether it      *)
(* repeats the call before it (times = 2).                                 *)

LoaderGenes == {<<<<1, 1, 1>>, FALSE>>, <<<<2, -1, 0>>, TRUE>>,
                <<<<40, 0, 0>>, FALSE>>}

\* the configuration without family settings, and one imported from the URL
\* with a sphere diameter of 0.5 and an outlier colour for family A
LoaderConfigs ==
  LET plain == ConfigFor(10, 1, 1, "Liver", <<"all">>)
  IN  {plain,
       [plain EXCEPT
          !.allModes = ("A_Diameter" :> 2) @@ @,
          !.lightMode = ("A_OutlierColor" :> <<1, 2, 3, 4, 5, 6, 7, 8>>) @@ @]}

InitLoader ==
  /\ data \in DataSets(LoaderGenes, MaxLoaderGenes, MaxLoaderGenes, {0})
  /\ config \in LoaderConfigs
  /\ cam = <<0, 0, 0>>
  /\ chunkDiameter = get(config, "chunkDiameter")
  /\ chunkLoadRange = get(config, "chunkLoadRange")
  /\ lastChunkDist = chunkLoadRange * chunkDiameter
  /\ LET built == calculateChunks(data, config, cam, chunkDiameter,
                                  chunkLoadRange)
     IN  /\ chunks = built.chunks
         /\ activeChunks = built.activeChunks
  /\ chunkCentroid = getChunkCentroid(cam, chunkDiameter)
  /\ heap = <<>>
  /\ pc = [op |-> "built", key |-> <<>>, times |-> 1]

\* loadChunk(scene, chunks[key], true)
Activate(key) ==
  /\ \E st \in {loadChunk([chunks |-> chunks, activeChunks |-> activeChunks,
                           heap |-> heap], key, TRUE, config)} :
       /\ chunks' = st.chunks
       /\ heap' = st.heap
  /\ pc' = [op |-> "activate", key |-> key,
            times |-> IF pc.op = "activate" /\ pc.key = key THEN 2 ELSE 1]
  /\ UNCHANGED <<data, config, cam, chunkDiameter, chunkLoadRange,
                 lastChunkDist, activeChunks, chunkCentroid>>

\* loadChunk(scene, chunks[key], false)
Deactivate(key) ==
  /\ \E st \in {loadChunk([chunks |-> chunks, activeChunks |-> activeChunks,
                           heap |-> heap], key, FALSE, config)} :
       /\ chunks' = st.chunks
       /\ heap' = st.heap
  /\ pc' = [op |-> "deactivate", key |-> key,
            times |-> IF pc.op = "deactivate" /\ pc.key = key THEN 2 ELSE 1]
  /\ UNCHANGED <<data, config, cam, chunkDiameter, chunkLoadRange,
                 lastChunkDist, activeChunks, chunkCentroid>>

NextLoader ==
  \E key \in DOMAIN chunks : Activate(key) \/ Deactivate(key)

SpecLoader == InitLoader /\ [][NextLoader]_vars

\* whether a handle refers to a geometry of the scene that is not disposed
Live(hp, mesh) == mesh # null /\ mesh \in DOMAIN hp

\* the number of points of a chunk that are not outliers
NormalCount(chunkData) ==
  Cardinality({n \in DOMAIN chunkData.dataPoints :
                 ~chunkData.dataPoints[n].is_outlier})

\* C9: after loadChunk(chunk, true) the normal-point handle is a live
\* geometry if and only if the chunk has at least one point that is not an
\* outlier, and the outlier handle is a live geometry if and only if the
\* outlier count of the chunk is not zero; after loadChunk(chunk, false) both
\* handles are null and the geometries they referred to are disposed.
C9_Footprint ==
  [][ /\ pc'.op = "activate" =>
           LET chunkData == chunks'[pc'.key]
           IN  /\ Live(heap', chunkData.sphere) <=> NormalCount(chunkData) >= 1
               /\ Live(heap', chunkData.oct) <=> chunkData.outlierCount # 0
      /\ pc'.op = "deactivate" =>
           /\ chunks'[pc'.key].sphere = null
           /\ chunks'[pc'.key].oct = null
           /\ ~Live(heap', chunks[pc'.key].sphere)
           /\ ~Live(heap', chunks[pc'.key].oct)
    ]_vars

\* a chunk of outliers only has just been activated: its outlier handle is
\* live and its normal-point handle is null, next to another loaded chunk
C9_Witness ==
  /\ pc.op = "activate"
  /\ chunks[pc.key].dataPoints # <<>>
  /\ NormalCount(chunks[pc.key]) = 0
  /\ Live(heap, chunks[pc.key].oct)
  /\ chunks[pc.key].sphere = null
  /\ \E other \in DOMAIN chunks \ {pc.key} : Live(heap, chunks[other].sphere)

\* C10: activating a chunk twice in a row leaves the same observable state as
\* activating it once: the same handles are non-null, as many geometries
\* are live, and the buffers of the chunk's geometries have the same
\* contents; deactivating a chunk leaves both handles null, the second time
\* in a row as the first, and the second call changes nothing.
C10_Idempotent ==
  [][ /\ (pc'.op = "activate" /\ pc'.times = 2) =>
           LET before == chunks[pc'.key]
               after  == chunks'[pc'.key]
           IN  /\ (after.sphere = null) <=> (before.sphere = null)
               /\ (after.oct = null) <=> (before.oct = null)
               /\ Cardinality(DOMAIN heap') = Cardinality(DOMAIN heap)
               /\ Live(heap', after.sphere) <=> Live(heap, before.sphere)
               /\ Live(heap', after.oct) <=> Live(heap, before.oct)
               /\ Live(heap, before.sphere) =>
                    heap'[after.sphere] = heap[before.sphere]
               /\ Live(heap, before.oct) =>
                    heap'[after.oct] = heap[before.oct]
               /\ \A other \in DOMAIN chunks \ {pc'.key} :
                    /\ chunks'[other] = chunks[other]
                    /\ Live(heap, chunks[other].sphere) =>
                         heap'[chunks[other].sphere] = heap[chunks[other].sphere]
                    /\ Live(heap, chunks[other].oct) =>
                         heap'[chunks[other].oct] = heap[chunks[other].oct]
      /\ pc'.op = "deactivate" =>
           /\ chunks'[pc'.key].sphere = null
           /\ chunks'[pc'.key].oct = null
      /\ (pc'.op = "deactivate" /\ pc'.times = 2) =>
           /\ chunks' = chunks
           /\ heap' = heap
    ]_vars

\* a chunk with points of both kinds has been activated twice in a row and
\* holds two live geometries
C10_Witness ==
  /\ pc.op = "activate"
  /\ pc.times = 2
  /\ Live(heap, chunks[pc.key].sphere)
  /\ Live(heap, chunks[pc.key].oct)

\* a chunk has been deactivated twice in a row
C10_WitnessDeactivated ==
  /\ pc.op = "deactivate"
  /\ pc.times = 2
  /\ chunks[pc.key].dataPoints # <<>>

\* the number of points of a chunk that are outliers
OutlierPoints(chunkData) ==
  Cardinality({n \in DOMAIN chunkData.dataPoints :
                 chunkData.dataPoints[n].is_outlier})

\* C16: for a chunk with n points that are not outliers and m outliers, the
\* activation hands the geometry of the normal points a transform buffer of
\* length 16 * n and a colour buffer of length 4 * n, and the geometry of the
\* outliers a transform buffer of length 16 * m and a colour buffer of length
\* 4 * m (48 and 16 for 3 normal points and 1 outlier); a geometry exists for
\* a category that has points.
C16_BufferLengths ==
  /\ \A key \in DOMAIN chunks :
       /\ Live(heap, chunks[key].sphere) =>
            /\ Len(heap[chunks[key].sphere].matrix) = 16 * NormalCount(chunks[key])
            /\ Len(heap[chunks[key].sphere].color) = 4 * NormalCount(chunks[key])
       /\ Live(heap, chunks[key].oct) =>
            /\ Len(heap[chunks[key].oct].matrix) = 16 * OutlierPoints(chunks[key])
            /\ Len(heap[chunks[key].oct].color) = 4 * OutlierPoints(chunks[key])
  /\ pc.op = "activate" =>
       /\ NormalCount(chunks[pc.key]) > 0 => Live(heap, chunks[pc.key].sphere)
       /\ OutlierPoints(chunks[pc.key]) > 0 => Live(heap, chunks[pc.key].oct)

\* a chunk with three normal points and one outlier has been activated: its
\* transform buffers have the lengths 48 and 16
C16_Witness ==
  /\ pc.op = "activate"
  /\ NormalCount(chunks[pc.key]) = 3
  /\ OutlierPoints(chunks[pc.key]) = 1
  /\ Len(heap[chunks[pc.key].sphere].matrix) = 48
  /\ Len(heap[chunks[pc.key].oct].matrix) = 16
  /\ Len(heap[chunks[pc.key].sphere].color) = 12
  /\ Len(heap[chunks[pc.key].oct].color) = 4

----------------------------------------------------------------------------
(* Specification of the fill of the instance buffers: calculateChunks has  *)
(* built one chunk from a list of shown families, in any order and with a  *)
(* family listed twice, and loadChunk is called on it.                     *)

\* genes of the sample data, all in the chunk (0,0,0) at diameter 10, no
\* two at the same place
PaintGenes == {<<<<1, 1, 1>>, FALSE>>, <<<<3, 0, 0>>, FALSE>>,
               <<<<2, -1, 0>>, TRUE>>, <<<<0, 2, 0>>, TRUE>>}

\* the lists of shown families: all, one of either order, and family A twice
PaintShown == {<<"all">>, <<"B", "A">>, <<"A", "B", "A">>}

\* the configurations as imported from the URL: without family settings, and
\* with a sphere diameter of 0.5 and an outlier colour for family A
PaintConfigs ==
  {[ConfigFor(10, 1, 1, "Liver", shown) EXCEPT
      !.allModes = IF sized THEN ("A_Diameter" :> 2) @@ @ ELSE @,
      !.lightMode = IF sized
                    THEN ("A_OutlierColor" :> <<1, 2, 3, 4, 5, 6, 7, 8>>) @@ @
                    ELSE @] :
     shown \in PaintShown, sized \in BOOLEAN}

InitPaint ==
  /\ data \in DataSets(PaintGenes, MaxPaintGenes, 1, {0})
  /\ config \in PaintConfigs
  /\ cam = <<0, 0, 0>>
  /\ chunkDiameter = get(config, "chunkDiameter")
  /\ chunkLoadRange = get(config, "chunkLoadRange")
  /\ lastChunkDist = chunkLoadRange * chunkDiameter
  /\ \E built \in {calculateChunks(data, config, cam, chunkDiameter,
                                   chunkLoadRange)} :
       /\ chunks = built.chunks
       /\ activeChunks = built.activeChunks
  /\ chunkCentroid = getChunkCentroid(cam, chunkDiameter)
  /\ heap = <<>>
  /\ pc = [op |-> "built", key |-> <<>>, times |-> 1]

NextPaint ==
  \E key \in DOMAIN chunks : Activate(key) \/ Deactivate(key)

SpecPaint == InitPaint /\ [][NextPaint]_vars

\* the points of a chunk that are outliers, or those that are not, in the
\* order of the point sequence
PointsFlagged(chunkData, flag) ==
  SelectSeq(chunkData.dataPoints, LAMBDA point : point.is_outlier = flag)

\* whether the slot k (from 0) of a transform buffer holds an instance at
\* the place of a point: a scale on the diagonal, the coordinates of the
\* point and the closing 1
SlotHolds(matrix, k, point) ==
  /\ matrix[16 * k + 1] > 0
  /\ matrix[16 * k + 6] = matrix[16 * k + 1]
  /\ matrix[16 * k + 11] = matrix[16 * k + 1]
  /\ <<matrix[16 * k + 13], matrix[16 * k + 14], matrix[16 * k + 15]>>
       = point.coordinates
  /\ matrix[16 * k + 16] = 1

\* whether the buffers of a geometry hold the points of a sequence in the
\* slots 0 .. Len(points) - 1, in the order of the sequence, and nothing else
DenselyPacked(geometry, points) ==
  /\ Len(geometry.matrix) = 16 * Len(points)
  /\ Len(geometry.color) = 4 * Len(points)
  /\ \A k \in 0..(Len(points) - 1) :
       SlotHolds(geometry.matrix, k, points[k + 1])

\* C27: an activation packs the two instance buffers densely: the points of
\* the chunk that are not outliers fill the slots 0 .. n - 1 of the buffer
\* of the spheres in the order of the point sequence, the outliers the slots
\* 0 .. m - 1 of the buffer of the octahedrons, no slot stays empty and no
\* point lands outside the buffer of its category.
C27_DenselyPacked ==
  pc.op = "activate" =>
    /\ PointsFlagged(chunks[pc.key], FALSE) # <<>> =>
         /\ Live(heap, chunks[pc.key].sphere)
         /\ DenselyPacked(heap[chunks[pc.key].sphere],
                          PointsFlagged(chunks[pc.key], FALSE))
    /\ PointsFlagged(chunks[pc.key], TRUE) # <<>> =>
         /\ Live(heap, chunks[pc.key].oct)
         /\ DenselyPacked(heap[chunks[pc.key].oct],
                          PointsFlagged(chunks[pc.key], TRUE))

\* an activated chunk whose point sequence has an outlier between two points
\* that are not outliers and at different places
C27_Witness ==
  /\ pc.op = "activate"
  /\ \E n \in DOMAIN chunks[pc.key].dataPoints :
       /\ chunks[pc.key].dataPoints[n].is_outlier
       /\ \E m \in 1..(n - 1) : ~chunks[pc.key].dataPoints[m].is_outlier
       /\ \E m \in (n + 1)..Len(chunks[pc.key].dataPoints) :
            /\ ~chunks[pc.key].dataPoints[m].is_outlier
            /\ chunks[pc.key].dataPoints[m].coordinates
                 # chunks[pc.key].dataPoints[1].coordinates
  /\ Len(PointsFlagged(chunks[pc.key], TRUE)) >= 2

\* the four channels of a colour as a colour buffer holds them
Channels(color) == <<color.r, color.g, color.b, color.a>>

\* whether the slot k (from 0) of a geometry holds a diameter and a colour
Painted(geometry, k, diameter, color) ==
  /\ geometry.matrix[16 * k + 1] = diameter
  /\ geometry.matrix[16 * k + 6] = diameter
  /\ geometry.matrix[16 * k + 11] = diameter
  /\ SubSeq(geometry.color, 4 * k + 1, 4 * k + 4) = Channels(color)

\* the family a point belongs to: the one its gene is listed under
FamilyOf(point) == point.genes[1]

\* C28: for every list of shown families, in any order and with a family
\* listed more than once, the colour and the diameter an activation writes
\* into the slot of a point are those of the family the point belongs to:
\* <family>_Diameter or 0.25 and <family>_Color or the derived colour for a
\* point that is not an outlier, <family>_OutlierDiameter or 0.25 and
\* <family>_OutlierColor or the family colour for an outlier.
C28_OwnFamilyPaint ==
  pc.op = "activate" =>
    /\ \A k \in 0..(Len(PointsFlagged(chunks[pc.key], FALSE)) - 1) :
         Painted(heap[chunks[pc.key].sphere], k,
                 diameterOf(config,
                            FamilyOf(PointsFlagged(chunks[pc.key], FALSE)[k + 1])
                              \o "_Diameter"),
                 familyColorOf(config,
                               FamilyOf(PointsFlagged(chunks[pc.key],
                                                      FALSE)[k + 1])))
    /\ \A k \in 0..(Len(PointsFlagged(chunks[pc.key], TRUE)) - 1) :
         Painted(heap[chunks[pc.key].oct], k,
                 diameterOf(config,
                            FamilyOf(PointsFlagged(chunks[pc.key], TRUE)[k + 1])
                              \o "_OutlierDiameter"),
                 outlierColorOf(config,
                                FamilyOf(PointsFlagged(chunks[pc.key],
                                                       TRUE)[k + 1])))

----------------------------------------------------------------------------
(* Specification of the viewer: plotData has run; the camera moves, the    *)
(* render callback runs once per frame, chunkReload events are handled.    *)

\* the camera moves in a plane, in a box that is long on the first axis
CamPositions == (-MaxCam..MaxCam) \X (0..1) \X {0}

\* genes of the sample data: <<raw coordinate vector, outlier flag>>
StreamGenesA == {<<<<0, 0, 0>>, FALSE>>, <<<<2, 1, 0>>, TRUE>>}
StreamGenesB == {<<<<1, 1, 0>>, FALSE>>}

StreamData ==
  {[keys |-> <<"A", "B">>,
    of   |-> [A |-> MkFamily("A", gA, 0), B |-> MkFamily("B", gB, 0)]] :
     gA \in GeneLists(StreamGenesA, MaxStreamGenes),
     gB \in GeneLists(StreamGenesB, 1)}

Init ==
  /\ data \in StreamData
  /\ \E diameter \in 1..MaxStreamDiameter :
       config = ConfigFor(diameter, 1, 1, "Liver", <<"all">>)
  /\ cam = <<0, 0, 0>>
  /\ chunkDiameter = get(config, "chunkDiameter")
  /\ chunkLoadRange = get(config, "chunkLoadRange")
  /\ lastChunkDist = chunkLoadRange * chunkDiameter
  /\ \E st \in {buildAndLoad(data, config, cam, chunkDiameter,
                             chunkLoadRange, <<>>)} :
       /\ chunks = st.chunks
       /\ activeChunks = st.activeChunks
       /\ heap = st.heap
  /\ chunkCentroid = getChunkCentroid(cam, chunkDiameter)
  /\ pc = "built"

\* the camera is moved between two frames
MoveCamera ==
  /\ \E p \in CamPositions : p # cam /\ cam' = p
  /\ pc' = "moved"
  /\ UNCHANGED <<data, config, chunkDiameter, chunkLoadRange, lastChunkDist,
                 chunks, activeChunks, chunkCentroid, heap>>

\* scene.registerBeforeRender callback
Tick ==
  /\ Len(activeChunks) <= MaxActive
  /\ \E currentChunkCentroid \in {getChunkCentroid(cam, chunkDiameter)} :
       /\ \E st \in {sweep([chunks |-> chunks, activeChunks |-> activeChunks,
                            heap |-> heap, n |-> 0],
                           config, chunkCentroid, currentChunkCentroid,
                           sweepPasses(chunkCentroid, currentChunkCentroid,
                                       lastChunkDist, chunkDiameter),
                           lastChunkDist)} :
            /\ chunks' = st.chunks
            /\ activeChunks' = st.activeChunks
            /\ heap' = st.heap
       /\ chunkCentroid' = currentChunkCentroid
  /\ pc' = "ticked"
  /\ UNCHANGED <<data, config, cam, chunkDiameter, chunkLoadRange,
                 lastChunkDist>>

\* document "chunkReload" listener; pc tells a reload that directly follows
\* another one from a reload after something else
ChunkReload ==
  /\ \E r \in {reloadChunks([chunks |-> chunks,
                             activeChunks |-> activeChunks,
                             heap |-> heap, n |-> 0], data, config, cam)} :
       /\ chunks' = r.st.chunks
       /\ activeChunks' = r.st.activeChunks
       /\ heap' = r.st.heap
       /\ chunkDiameter' = r.chunkDiameter
       /\ chunkLoadRange' = r.chunkLoadRange
       /\ lastChunkDist' = r.chunkLoadRange * r.chunkDiameter
  /\ pc' = IF pc \in {"reloaded", "reloadedAgain", "configured"}
           THEN "reloadedAgain" ELSE "reloaded"
  /\ UNCHANGED <<data, config, cam, chunkCentroid>>

Next == MoveCamera \/ Tick \/ ChunkReload

Spec == Init /\ [][Next]_vars

\* the keys of the chunks of the map that are nearer than sightDistance =
\* (chunkLoadRange + 0.5) * chunkDiameter to a centroid on all three axes
InSightOf(centroid) ==
  {key \in DOMAIN chunks :
     \A i \in 1..3 :
       /\ key[i] # NaN
       /\ 2 * Abs(key[i] - centroid[i])
            < (2 * chunkLoadRange + 1) * chunkDiameter}

\* C1: after the initial build and after viewpoint moves each followed by a
\* tick of the streaming controller, the active-chunk set is exactly the set
\* of the keys of the chunks of the map that are nearer than sightDistance
\* to the centroid of the current viewpoint on each of the three axes.
C1_ActiveIsInSight ==
  pc \in {"built", "ticked"} =>
    Range(activeChunks) = InSightOf(getChunkCentroid(cam, chunkDiameter))

\* whether the chunk at a key holds a geometry that is not disposed
HoldsGeometry(key) ==
  \/ Live(heap, chunks[key].sphere)
  \/ Live(heap, chunks[key].oct)

\* the keys of the chunks that hold a geometry that is not disposed
LiveKeys == {key \in DOMAIN chunks : HoldsGeometry(key)}

\* C2: in every state between operations (after the build, after each tick,
\* after each reload) a key is in the active-chunk set if and only if a
\* chunk exists at that key and holds live geometry.
C2_ActiveIffLive ==
  pc \in {"built", "ticked", "reloaded", "reloadedAgain"} =>
    \A key \in DOMAIN chunks \cup Range(activeChunks) :
      key \in Range(activeChunks) <=>
        (key \in DOMAIN chunks /\ HoldsGeometry(key))

\* the handles the chunks of the current chunk map hold
Handles ==
  UNION {{chunks[key].sphere, chunks[key].oct} : key \in DOMAIN chunks}
    \ {null}

\* C8: every geometry that was allocated and is not disposed is referred to
\* by a handle of a chunk of the current chunk map: no geometry leaks, and
\* none survives from a chunk map that a reload has discarded.
C8_NoLeak == DOMAIN heap \subseteq Handles

\* a reload away from the centroid of the last tick has replaced the chunk
\* map: one chunk of the new map holds live geometry and another holds none
C8_Witness ==
  /\ pc \in {"reloaded", "reloadedAgain"}
  /\ chunkCentroid # getChunkCentroid(cam, chunkDiameter)
  /\ chunkCentroid # <<0, 0, 0>>
  /\ \E key \in DOMAIN chunks : HoldsGeometry(key)
  /\ \E key \in DOMAIN chunks : ~HoldsGeometry(key)

\* C12: in a state reached by the build, camera moves and frames, right
\* after the build or a frame, a reload (the configuration and the data being
\* unchanged) yields an active list with the same set of keys as the active
\* list just before the reload.
C12_ReloadKeepsActive ==
  [][(pc \in {"built", "ticked"} /\ pc' = "reloaded") =>
       Range(activeChunks') = Range(activeChunks)]_vars

\* C15: the active list only ever holds keys of chunks that exist in the
\* chunk map, and a frame that sweeps only keys without a chunk (here: the
\* chunk map is empty) changes neither the geometry, nor the chunk map, nor
\* the active list.
C15_ActiveKeysExist ==
  [][/\ Range(activeChunks') \subseteq DOMAIN chunks'
     /\ (pc' = "ticked" /\ DOMAIN chunks = {}) =>
          (heap' = heap /\ chunks' = chunks /\ activeChunks' = activeChunks)
    ]_vars

\* whether no key occurs twice in the active list and the list is not longer
\* than the (2 * chunkLoadRange + 1)^3 cells of the box in sight
ActiveIsASet ==
  /\ \A m, n \in DOMAIN activeChunks :
       m # n => activeChunks[m] # activeChunks[n]
  /\ Len(activeChunks) <= (2 * chunkLoadRange + 1) * (2 * chunkLoadRange + 1)
                            * (2 * chunkLoadRange + 1)

\* the streaming controller without reloads: camera moves and frames only
NextFrames == MoveCamera \/ Tick

SpecFrames == Init /\ [][NextFrames]_vars

\* C23: after the build and any sequence of camera moves and frames, no key
\* occurs more than once in the active list, whose length therefore does not
\* exceed (2 * chunkLoadRange + 1)^3; a removed key is then not in the list
\* any more.
C23_ActiveIsASet ==
  pc \in {"built", "moved", "ticked"} => ActiveIsASet

----------------------------------------------------------------------------
(* Specification of the viewer with a configuration that changes: next to  *)
(* camera moves, frames and chunkReload events, config.set is called on    *)
(* the keys that plotData reads; the events it dispatches are handled by   *)
(* the listener before it returns.                                         *)

\* the values handed to config.set: numbers from 0 on, and the booleans
ReloadValues(key) ==
  IF key = "darkMode"
  THEN {[type |-> "boolean", b |-> b] : b \in BOOLEAN}
  ELSE {[type |-> "number", n |-> n, half |-> FALSE] :
          n \in 0..MaxReloadSetting}

\* config.set(key, value, runCallback) with the listener of plotData
ConfigSet(key, value, runCallback) ==
  /\ \E o \in {set(config, key, value, runCallback)} :
       /\ config' = o.config
       /\ \E cl \in {dispatchEvents(
                        [chunks |-> chunks, activeChunks |-> activeChunks,
                         heap |-> heap, chunkDiameter |-> chunkDiameter,
                         chunkLoadRange |-> chunkLoadRange,
                         lastChunkDist |-> lastChunkDist, n |-> 0],
                        data, o.config, cam, o.events)} :
            /\ chunks' = cl.chunks
            /\ activeChunks' = cl.activeChunks
            /\ heap' = cl.heap
            /\ chunkDiameter' = cl.chunkDiameter
            /\ chunkLoadRange' = cl.chunkLoadRange
            /\ lastChunkDist' = cl.lastChunkDist
       /\ pc' = IF o.events # <<>> THEN "configured"
                ELSE IF o.config # config THEN "stored" ELSE "rejected"
  /\ UNCHANGED <<data, cam, chunkCentroid>>

\* the sample data of this specification: family A with a point at the
\* origin and an outlier, family B with one point
ReloadData ==
  [keys |-> <<"A", "B">>,
   of   |-> [A |-> MkFamily("A", <<<<<<0, 0, 0>>, FALSE>>,
                                   <<<<2, 1, 0>>, TRUE>>>>, 0),
             B |-> MkFamily("B", <<<<<<1, 1, 0>>, FALSE>>>>, 0)]]

\* the camera positions of this specification
ReloadViews == {<<0, 0, 0>>, <<1, 0, 0>>}

InitReload ==
  /\ data = ReloadData
  /\ config = ConfigFor(1, 1, 1, "Liver", <<"all">>)
  /\ cam = <<0, 0, 0>>
  /\ chunkDiameter = get(config, "chunkDiameter")
  /\ chunkLoadRange = get(config, "chunkLoadRange")
  /\ lastChunkDist = chunkLoadRange * chunkDiameter
  /\ \E st \in {buildAndLoad(data, config, cam, chunkDiameter,
                             chunkLoadRange, <<>>)} :
       /\ chunks = st.chunks
       /\ activeChunks = st.activeChunks
       /\ heap = st.heap
  /\ chunkCentroid = getChunkCentroid(cam, chunkDiameter)
  /\ pc = "built"

\* the camera is moved between two frames
MoveView ==
  /\ MoveCamera
  /\ cam' \in ReloadViews

\* a frame, while the active list is short
Frame ==
  /\ Len(activeChunks) <= MaxReloadActive
  /\ Tick

NextReload ==
  \/ MoveView
  \/ Frame
  \/ ChunkReload
  \/ \E key \in {"chunkDiameter", "chunkLoadRange", "darkMode"} :
       \E value \in ReloadValues(key) :
         \E runCallback \in BOOLEAN : ConfigSet(key, value, runCallback)

SpecReload == InitReload /\ [][NextReload]_vars

\* C11: when a chunkReload event is handled (alone, or dispatched by
\* config.set), no geometry of a chunk of the old chunk map stays live, and
\* the chunk map, the active set, the live geometry and the streaming
\* parameters are those that calculateChunks and the initial activation
\* produce in an empty scene for the viewpoint at the time of the reload and
\* the chunkDiameter and chunkLoadRange the configuration store holds.
C11_ReloadRebuilds ==
  [][pc' \in {"reloaded", "reloadedAgain", "configured"} =>
       LET expected == buildAndLoad(data, config', cam,
                                    get(config', "chunkDiameter"),
                                    get(config', "chunkLoadRange"), <<>>)
       IN  /\ chunks' = expected.chunks
           /\ activeChunks' = expected.activeChunks
           /\ heap' = expected.heap
           /\ DOMAIN heap' \subseteq Handles'
           /\ \A key \in DOMAIN chunks' :
                HoldsGeometry(key)' <=> key \in Range(activeChunks')
           /\ chunkDiameter' = get(config', "chunkDiameter")
           /\ chunkLoadRange' = get(config', "chunkLoadRange")
           /\ lastChunkDist' = chunkLoadRange' * chunkDiameter'
    ]_vars

\* a reload has happened after the diameter and the range in the store were
\* changed and the camera was moved away from the centroid of the last
\* frame: the closure holds the new parameters, the chunk map is the one of
\* the new diameter and its two chunks are loaded
C11_Witness ==
  /\ pc = "reloaded"
  /\ chunkDiameter = 2
  /\ chunkLoadRange = 2
  /\ cam # <<0, 0, 0>>
  /\ chunkCentroid # getChunkCentroid(cam, chunkDiameter)
  /\ DOMAIN chunks = {<<0, 0, 0>>, <<2, 2, 0>>}
  /\ \A key \in DOMAIN chunks : HoldsGeometry(key)

\* what a chunk map holds apart from its geometry handles
Contents(chunkMap) ==
  [key \in DOMAIN chunkMap |->
     [dataPoints |-> chunkMap[key].dataPoints,
      memberCounts |-> chunkMap[key].memberCounts,
      outlierCount |-> chunkMap[key].outlierCount]]

\* the buffers of the live geometries of the chunks of a chunk map
Geometry(chunkMap, hp) ==
  [key \in {k \in DOMAIN chunkMap : Live(hp, chunkMap[k].sphere)
                                      \/ Live(hp, chunkMap[k].oct)} |->
     <<IF Live(hp, chunkMap[key].sphere) THEN hp[chunkMap[key].sphere]
       ELSE <<>>,
       IF Live(hp, chunkMap[key].oct) THEN hp[chunkMap[key].oct] ELSE <<>>>>]

\* C13: a chunkReload event handled directly after another reload, with no
\* change of configuration, data or viewpoint between the two, leaves what
\* the first reload left: the same contents of the chunk map, the same active
\* list (the same set of keys, in the same order), the same chunks with live
\* geometry, carrying the same buffers, and the same streaming parameters.
C13_RedundantReload ==
  [][pc' = "reloadedAgain" =>
       /\ Contents(chunks') = Contents(chunks)
       /\ Range(activeChunks') = Range(activeChunks)
       /\ activeChunks' = activeChunks
       /\ Geometry(chunks', heap') = Geometry(chunks, heap)
       /\ chunkDiameter' = chunkDiameter
       /\ chunkLoadRange' = chunkLoadRange
       /\ lastChunkDist' = lastChunkDist
    ]_vars

\* a second chunkReload event has been handled directly after config.set
\* changed the diameter and dispatched the first: the chunks of the new map
\* are loaded
C13_Witness ==
  /\ pc = "reloadedAgain"
  /\ chunkDiameter = 2
  /\ activeChunks # <<>>
  /\ \A key \in Range(activeChunks) :
       key \in DOMAIN chunks /\ HoldsGeometry(key)

\* C21: when a frame starts, chunkCentroid is getChunkCentroid, under the
\* chunkDiameter in use, of the viewpoint at the latest build, reload or
\* frame: after each of them it is the centroid of the camera position, and
\* a frame that follows a reload with the camera unmoved finds no transition
\* and changes neither the active list nor a geometry.
C21_CentroidIsCurrent ==
  [][/\ pc' \in {"ticked", "reloaded", "reloadedAgain", "configured"} =>
          chunkCentroid' = getChunkCentroid(cam', chunkDiameter')
     /\ (pc \in {"reloaded", "reloadedAgain", "configured"} /\ pc' = "ticked") =>
          /\ chunkCentroid' = chunkCentroid
          /\ activeChunks' = activeChunks
          /\ chunks' = chunks
          /\ heap' = heap
    ]_vars

\* the steps on which the chunkReload listener has run
Reloading == {"reloaded", "reloadedAgain", "configured"}

\* C22: a reload sets chunkDiameter, chunkLoadRange and the sweep distance
\* of the controller to what the configuration store holds at that time;
\* they stay as they are until the next reload, whatever the store is handed
\* in between, and a frame takes the centroid of the camera under this
\* chunkDiameter.
C22_ReloadReadsStore ==
  [][/\ pc' \in Reloading =>
          /\ chunkDiameter' = get(config', "chunkDiameter")
          /\ chunkLoadRange' = get(config', "chunkLoadRange")
          /\ lastChunkDist' = chunkLoadRange' * chunkDiameter'
     /\ pc' \notin Reloading =>
          /\ chunkDiameter' = chunkDiameter
          /\ chunkLoadRange' = chunkLoadRange
          /\ lastChunkDist' = lastChunkDist
     /\ pc' = "ticked" =>
          chunkCentroid' = getChunkCentroid(cam, chunkDiameter)
    ]_vars

\* a frame after a reload at chunkDiameter 2, which is neither the diameter
\* plotData started with nor the one the store holds by now
C22_Witness ==
  /\ pc = "ticked"
  /\ chunkDiameter = 2
  /\ lastChunkDist = 2 * chunkLoadRange
  /\ get(config, "chunkDiameter") = 1
  /\ chunkCentroid = getChunkCentroid(cam, 2)
  /\ cam = <<1, 0, 0>>

----------------------------------------------------------------------------
(* Specification of the camera and the store: setupCamera and plotData     *)
(* have run; config.set is called on scale and darkMode, the camera moves, *)
(* and the render callback of setupCamera writes the camera position back  *)
(* to the store.  pc records the last call and the chunkReload events it   *)
(* dispatched.                                                             *)

\* the places of the camera, in units of scale
CameraPlaces == {<<0, 0, 0>>, <<1, 0, 0>>, <<1, 1, 0>>}

\* the world of the current state, no event dispatched yet
World ==
  [config |-> config, cam |-> cam,
   cl |-> [chunks |-> chunks, activeChunks |-> activeChunks, heap |-> heap,
           chunkDiameter |-> chunkDiameter,
           chunkLoadRange |-> chunkLoadRange,
           lastChunkDist |-> lastChunkDist, n |-> 0],
   events |-> <<>>]

\* the next state is the world w
Becomes(w) ==
  /\ config' = w.config
  /\ cam' = w.cam
  /\ chunks' = w.cl.chunks
  /\ activeChunks' = w.cl.activeChunks
  /\ heap' = w.cl.heap
  /\ chunkDiameter' = w.cl.chunkDiameter
  /\ chunkLoadRange' = w.cl.chunkLoadRange
  /\ lastChunkDist' = w.cl.lastChunkDist
  /\ UNCHANGED <<data, chunkCentroid>>

InitCamera ==
  /\ data = ReloadData
  /\ config = [ConfigFor(1, 1, 1, "Liver", <<"all">>) EXCEPT
                 !.callbacks = @ \o <<[key |-> "x", callback |-> "position"],
                                      [key |-> "y", callback |-> "position"],
                                      [key |-> "z", callback |-> "position"],
                                      [key |-> "scale",
                                       callback |-> "rescale"]>>]
  /\ cam = <<0, 0, 0>>
  /\ chunkDiameter = get(config, "chunkDiameter")
  /\ chunkLoadRange = get(config, "chunkLoadRange")
  /\ lastChunkDist = chunkLoadRange * chunkDiameter
  /\ \E st \in {buildAndLoad(data, config, cam, chunkDiameter,
                             chunkLoadRange, <<>>)} :
       /\ chunks = st.chunks
       /\ activeChunks = st.activeChunks
       /\ heap = st.heap
  /\ chunkCentroid = getChunkCentroid(cam, chunkDiameter)
  /\ pc = [op |-> "plotData", key |-> "", value |-> 0, valid |-> TRUE,
           runCallback |-> FALSE, events |-> <<>>]

\* config.set("scale", value, runCallback)
SetScale(value, runCallback) ==
  /\ \E w \in {setScale(World, data, asNumber(value), runCallback)} :
       /\ Becomes(w)
       /\ pc' = [op |-> "set", key |-> "scale", value |-> value,
                 valid |-> validate("scale", asNumber(value)).valid,
                 runCallback |-> runCallback, events |-> w.events]

\* config.set("darkMode", value, runCallback)
SetDarkMode(value, runCallback) ==
  /\ \E w \in {setDarkMode(World, data, [type |-> "boolean", b |-> value],
                           runCallback)} :
       /\ Becomes(w)
       /\ pc' = [op |-> "set", key |-> "darkMode", value |-> value,
                 valid |-> TRUE, runCallback |-> runCallback,
                 events |-> w.events]

\* a place at a scale
PlaceAt(place, scale) ==
  <<place[1] * scale, place[2] * scale, place[3] * scale>>

\* the render callback of setupCamera, with the camera at one of the places
\* at the scale the store holds
WriteBack ==
  /\ \E place \in CameraPlaces : cam = PlaceAt(place, get(config, "scale"))
  /\ \E w \in {writeBack(World, data)} :
       /\ Becomes(w)
       /\ pc' = [op |-> "writeBack", key |-> "x", value |-> 0,
                 valid |-> TRUE, runCallback |-> FALSE, events |-> w.events]

\* the camera is moved by the controls
MoveTo(place) ==
  /\ cam # PlaceAt(place, get(config, "scale"))
  /\ cam' = PlaceAt(place, get(config, "scale"))
  /\ pc' = [op |-> "moved", key |-> "", value |-> 0, valid |-> TRUE,
            runCallback |-> FALSE, events |-> <<>>]
  /\ UNCHANGED <<data, config, chunkDiameter, chunkLoadRange, lastChunkDist,
                 chunks, activeChunks, chunkCentroid, heap>>

NextCamera ==
  \/ \E value \in 0..MaxCamScale : \E runCallback \in BOOLEAN :
       SetScale(value, runCallback)
  \/ \E value \in BOOLEAN : \E runCallback \in BOOLEAN :
       SetDarkMode(value, runCallback)
  \/ WriteBack
  \/ \E place \in CameraPlaces : MoveTo(place)

SpecCamera == InitCamera /\ [][NextCamera]_vars

\* the position the store holds, times scale: where the callbacks of x, y
\* and z put the camera
StoredView(cfg) ==
  <<get(cfg, "x") * get(cfg, "scale"), get(cfg, "y") * get(cfg, "scale"),
    get(cfg, "z") * get(cfg, "scale")>>

\* C29: config.set on scale or darkMode, keys with a setter callback that
\* trigger a reload, runs the callback to its end before it dispatches
\* chunkReload: the callback of scale has put the camera at the stored
\* position times the new scale, the listener reads that position and the
\* rebuild is the one for it; the config.set calls for x, y and z inside the
\* callback dispatch no event, so config.set on scale dispatches one event
\* (on darkMode two: one by the callback at its end, one by config.set).
C29_CallbackBeforeReload ==
  [][(pc'.op = "set" /\ pc'.valid /\ pc'.runCallback) =>
       /\ cam' = StoredView(config')
       /\ pc'.events =
            IF pc'.key = "scale"
            THEN <<[setting |-> "scale", view |-> cam']>>
            ELSE <<[setting |-> "darkMode", view |-> cam'],
                   [setting |-> "darkMode", view |-> cam']>>
       /\ \E expected \in {buildAndLoad(data, config', cam',
                                         get(config', "chunkDiameter"),
                                         get(config', "chunkLoadRange"),
                                         <<>>)} :
            /\ chunks' = expected.chunks
            /\ activeChunks' = expected.activeChunks
            /\ heap' = expected.heap
    ]_vars

\* scale has been set to 2 with the store at (1,1,0): the camera is at
\* (2,2,0), the one event was handled with the camera there, and the
\* rebuild has activated the chunk (2,2,0) alone
C29_Witness ==
  /\ pc.op = "set"
  /\ pc.key = "scale"
  /\ pc.runCallback
  /\ get(config, "scale") = 2
  /\ cam = <<2, 2, 0>>
  /\ pc.events = <<[setting |-> "scale", view |-> <<2, 2, 0>>]>>
  /\ activeChunks = << <<2, 2, 0>> >>

\* C30: config.set(key, value, false) stores a valid value, calls no setter
\* callback and dispatches no chunkReload event: the camera stays where it
\* is and the closure of plotData is untouched; so the write-back of the
\* camera position in the render callback of setupCamera stores the
\* position and triggers no reload.
C30_SilentSet ==
  [][(\/ pc'.op = "set" /\ pc'.valid /\ ~pc'.runCallback
      \/ pc'.op = "writeBack") =>
       /\ pc'.events = <<>>
       /\ cam' = cam
       /\ chunks' = chunks
       /\ activeChunks' = activeChunks
       /\ heap' = heap
       /\ chunkDiameter' = chunkDiameter
       /\ chunkLoadRange' = chunkLoadRange
       /\ lastChunkDist' = lastChunkDist
       /\ (pc'.op = "set") => (get(config', pc'.key) = pc'.value)
       /\ (pc'.op = "writeBack") => (StoredView(config') = cam)
    ]_vars

\* scale has been set to 2 without its callback while the camera is at
\* (1,1,0): the store holds 2, the camera has not been put at (2,2,0) and
\* the chunk map is still the one of scale 1
C30_Witness ==
  /\ pc.op = "set"
  /\ pc.key = "scale"
  /\ ~pc.runCallback
  /\ pc.value = 2
  /\ get(config, "scale") = 2
  /\ get(config, "x") = 1
  /\ cam = <<1, 1, 0>>
  /\ pc.events = <<>>
  /\ <<1, 1, 0>> \in DOMAIN chunks

----------------------------------------------------------------------------
(* Specification of the streaming controller at the diameters 1 and 10:    *)
(* plotData has run on data with points around the origin and at multiples *)
(* of 10; the camera moves along the axes, frames and reloads follow.      *)

ShellGenes == {<<<<-10, 0, 0>>, FALSE>>, <<<<20, 10, 0>>, TRUE>>,
               <<<<2, 1, 0>>, FALSE>>, <<<<-1, 0, 0>>, TRUE>>}

ShellDiameters == {1, 10}

ShellViews == {<<0, 0, 0>>, <<1, 0, 0>>, <<11, 0, 0>>, <<0, -11, 0>>}

InitShell ==
  /\ data \in DataSets(ShellGenes, MaxShellGenes, 1, {0})
  /\ \E diameter \in ShellDiameters :
       config = ConfigFor(diameter, 1, 1, "Liver", <<"all">>)
  /\ cam = <<0, 0, 0>>
  /\ chunkDiameter = get(config, "chunkDiameter")
  /\ chunkLoadRange = get(config, "chunkLoadRange")
  /\ lastChunkDist = chunkLoadRange * chunkDiameter
  /\ \E st \in {buildAndLoad(data, config, cam, chunkDiameter,
                             chunkLoadRange, <<>>)} :
       /\ chunks = st.chunks
       /\ activeChunks = st.activeChunks
       /\ heap = st.heap
  /\ chunkCentroid = getChunkCentroid(cam, chunkDiameter)
  /\ pc = "built"

\* the camera is moved between two frames
MoveAlong ==
  /\ \E p \in ShellViews : p # cam /\ cam' = p
  /\ pc' = "moved"
  /\ UNCHANGED <<data, config, chunkDiameter, chunkLoadRange, lastChunkDist,
                 chunks, activeChunks, chunkCentroid, heap>>

NextShell == MoveAlong \/ Tick \/ ChunkReload

SpecShell == InitShell /\ [][NextShell]_vars

\* the axes on which two centroids differ
ChangedAxes(previous, current) == {i \in 1..3 : current[i] # previous[i]}

\* the keys of the layer at the coordinate onAxis of axis i whose offsets
\* from the previous centroid on the two other axes are -reach, -reach +
\* chunkDiameter, ... up to reach; all quantities doubled
Shell(previous, i, onAxis2, reach2) ==
  {key \in DOMAIN chunks :
     /\ \A n \in 1..3 : key[n] # NaN
     /\ 2 * key[i] = onAxis2
     /\ \A j \in (1..3) \ {i} :
          /\ Abs(2 * (key[j] - previous[j])) <= reach2
          /\ (2 * (key[j] - previous[j]) + reach2) % (2 * chunkDiameter) = 0}

\* a frame that found the centroid changed on one axis has activated the
\* chunks of the layer at current + direction * reach, deactivated those of
\* the layer at previous - direction * reach and left every other chunk
\* as it was; reach2 is twice the reach
SwappedAt(reach2) ==
  \A i \in ChangedAxes(chunkCentroid, chunkCentroid') :
    LET direction == IF chunkCentroid'[i] > chunkCentroid[i] THEN 1 ELSE -1
        entered == Shell(chunkCentroid, i,
                         2 * chunkCentroid'[i] + direction * reach2, reach2)
        left    == Shell(chunkCentroid, i,
                         2 * chunkCentroid[i] - direction * reach2, reach2)
    IN  \A key \in DOMAIN chunks :
          /\ key \in entered =>
               Live(heap', chunks'[key].sphere) \/ Live(heap', chunks'[key].oct)
          /\ key \in left =>
               chunks'[key].sphere = null /\ chunks'[key].oct = null
          /\ key \notin entered \cup left =>
               /\ chunks'[key] = chunks[key]
               /\ HoldsGeometry(key)' <=> HoldsGeometry(key)

\* C14, as the code has it: on a frame where the centroid of the viewpoint
\* changes on one axis only, the chunks activated are exactly those of the
\* layer at currentAxis + direction * chunkLoadRange * chunkDiameter and the
\* chunks deactivated exactly those of the layer at previousAxis - direction
\* * chunkLoadRange * chunkDiameter, the offsets on the two other axes
\* running from -chunkLoadRange * chunkDiameter to chunkLoadRange *
\* chunkDiameter in steps of chunkDiameter; with diameter 10 and range 1 a
\* move from (0,0,0) to (11,0,0) deactivates the layer at -10 and activates
\* the layer at 20.
C14_ShellAtLoadRange ==
  [][(pc' = "ticked"
        /\ Cardinality(ChangedAxes(chunkCentroid, chunkCentroid')) = 1) =>
       SwappedAt(2 * chunkLoadRange * chunkDiameter)]_vars

\* C14, as the specification has it: the layers lie at currentAxis +
\* direction * sightDistance and previousAxis - direction * sightDistance,
\* with sightDistance = (chunkLoadRange + 0.5) * chunkDiameter, -15 and 25
\* in the scenario.
C14_ShellAtSightDistance ==
  [][(pc' = "ticked"
        /\ Cardinality(ChangedAxes(chunkCentroid, chunkCentroid')) = 1) =>
       SwappedAt((2 * chunkLoadRange + 1) * chunkDiameter)]_vars

\* the scenario: diameter 10, range 1, the build at (0,0,0), the camera at
\* (11,0,0) and a frame that moved the centroid from (0,0,0) to (10,0,0);
\* the chunk at (20,10,0) is loaded and the chunk at (-10,0,0) is not
C14_Witness ==
  /\ pc = "ticked"
  /\ chunkDiameter = 10
  /\ chunkLoadRange = 1
  /\ cam = <<11, 0, 0>>
  /\ chunkCentroid = <<10, 0, 0>>
  /\ {<<20, 10, 0>>, <<-10, 0, 0>>} \subseteq DOMAIN chunks
  /\ HoldsGeometry(<<20, 10, 0>>)
  /\ ~HoldsGeometry(<<-10, 0, 0>>)
  /\ Len(activeChunks) = 9


\* whether two centroids differ by one chunkDiameter on one axis and agree on
\* the two others
OneStep(previous, current) ==
  \E i \in 1..3 :
    /\ Abs(current[i] - previous[i]) = chunkDiameter
    /\ \A j \in (1..3) \ {i} : current[j] = previous[j]

\* C20: if the chunks that hold live geometry are exactly the chunks within
\* sightDistance of the centroid of the viewpoint on all three axes, then a
\* frame that finds the centroid moved by one chunkDiameter on one axis ends
\* with the chunks that hold live geometry being exactly the chunks within
\* sightDistance of the new centroid.
C20_StepMatchesBruteForce ==
  [][(/\ pc' = "ticked"
      /\ LiveKeys = InSightOf(chunkCentroid)
      /\ OneStep(chunkCentroid, chunkCentroid')) =>
       LiveKeys' = InSightOf(chunkCentroid)']_vars

\* diameter 1, range 1: the frame after the step from (0,0,0) to (1,0,0) has
\* loaded the chunk (2,1,0), at the far corner of the new layer, and unloaded
\* the chunk (-1,0,0)
C20_Witness ==
  /\ pc = "ticked"
  /\ chunkDiameter = 1
  /\ chunkLoadRange = 1
  /\ chunkCentroid = <<1, 0, 0>>
  /\ DOMAIN chunks = {<<2, 1, 0>>, <<-1, 0, 0>>}
  /\ LiveKeys = {<<2, 1, 0>>}
  /\ LiveKeys = InSightOf(chunkCentroid)

\* C24: a frame adds no chunk to the chunk map and removes none, and leaves
\* the point sequence, the per-family counts and the outlier count of every
\* chunk as they are; so does a camera move, and chunkDiameter and
\* chunkLoadRange stay as they are: until the next reload only geometry
\* handles and the active list change.
C24_FrameKeepsPartition ==
  [][pc' \in {"ticked", "moved"} =>
       /\ Contents(chunks') = Contents(chunks)
       /\ data' = data
       /\ chunkDiameter' = chunkDiameter
       /\ chunkLoadRange' = chunkLoadRange
    ]_vars

\* a frame has found the camera elsewhere and has left two chunks with
\* their points in the map, one with geometry and one without
C24_Witness ==
  /\ pc = "ticked"
  /\ chunkCentroid # <<0, 0, 0>>
  /\ \E loadedKey, unloadedKey \in DOMAIN chunks :
       /\ HoldsGeometry(loadedKey)
       /\ ~HoldsGeometry(unloadedKey)
       /\ chunks[unloadedKey].dataPoints # <<>>
       /\ chunks[unloadedKey].memberCounts # <<>>

\* the keys whose membership in the active list or whose chunk differs
\* between two states of the controller
Touched(list, chunkMap, listAfter, chunkMapAfter) ==
  {key \in Range(list) \cup Range(listAfter) :
     (key \in Range(list)) # (key \in Range(listAfter))}
    \cup {key \in DOMAIN chunkMap : chunkMapAfter[key] # chunkMap[key]}

\* whether a key lies in the layer a sweep of axis i enters or in the one it
\* leaves
OnSweptLayer(key, previous, current, i) ==
  \/ key[i] = current[i] + directionOf(current[i], previous[i]) * lastChunkDist
  \/ key[i] = previous[i] - directionOf(current[i], previous[i]) * lastChunkDist

\* C25: a frame that finds the centroid of the camera equal to chunkCentroid
\* on all three axes loads and unloads nothing and leaves the active list
\* and every geometry as they are; a frame that finds it changed on some
\* axes touches only keys of the layers of these axes.
C25_UnchangedAxesNotSwept ==
  [][pc' = "ticked" =>
       /\ chunkCentroid' = chunkCentroid =>
            /\ activeChunks' = activeChunks
            /\ chunks' = chunks
            /\ heap' = heap
       /\ \A key \in Touched(activeChunks, chunks, activeChunks', chunks') :
            \E i \in ChangedAxes(chunkCentroid, chunkCentroid') :
              OnSweptLayer(key, chunkCentroid, chunkCentroid', i)
       /\ Len(activeChunks') <= Len(activeChunks)
            + Cardinality(ChangedAxes(chunkCentroid, chunkCentroid'))
                * Len(sweepOffsets(lastChunkDist, chunkDiameter))
                * Len(sweepOffsets(lastChunkDist, chunkDiameter))
    ]_vars

\* diameter 10: a frame with the camera at (1,0,0), in the cell of the
\* build, has left the two chunks the build loaded and the active list of
\* the build
C25_Witness ==
  /\ pc = "ticked"
  /\ chunkDiameter = 10
  /\ cam = <<1, 0, 0>>
  /\ chunkCentroid = <<0, 0, 0>>
  /\ DOMAIN chunks = {<<0, 0, 0>>, <<-10, 0, 0>>}
  /\ Len(activeChunks) = 2
  /\ \A key \in DOMAIN chunks : HoldsGeometry(key)

----------------------------------------------------------------------------
(* Specification of the configuration store alone: after setupConfig,      *)
(* config.set and config.setSetterCallback are called in any order.  pc    *)
(* records the last call and its outcome.                                  *)

\* one key of every kind the store tells apart
ConfigKeys ==
  {"darkMode", "scale", "chunkDiameter", "shownFamilies", "tissueX",
   "A_Color", "A_Diameter", "unknownKey"}

\* the values handed to config.set: the numbers 0 .. MaxSetting and 0.5,
\* the booleans, a string, null and an array of family names
ConfigNumbers ==
  {[type |-> "number", n |-> n, half |-> FALSE] : n \in 0..MaxSetting}
    \cup {[type |-> "number", n |-> 0, half |-> TRUE]}

ConfigValues ==
  ConfigNumbers
    \cup {[type |-> "boolean", b |-> b] : b \in BOOLEAN}
    \cup {[type |-> "string", s |-> "Heart"], [type |-> "null"],
          [type |-> "array", a |-> <<"A">>]}

\* the keys callbacks are registered for, and the callbacks
SubscribedKeys == {"scale", "darkMode"}
Subscribers == {"first", "second"}

InitConfig ==
  /\ data = <<>>
  /\ config = [allModes |-> <<>>, lightMode |-> <<>>, darkMode |-> <<>>,
               prefersDark |-> FALSE,
               callbacks |-> <<[key |-> "darkMode",
                                callback |-> "onDarkModeSwitch"]>>]
  /\ cam = <<0, 0, 0>>
  /\ chunkDiameter = 0
  /\ chunkLoadRange = 0
  /\ lastChunkDist = 0
  /\ chunks = <<>>
  /\ activeChunks = <<>>
  /\ chunkCentroid = <<0, 0, 0>>
  /\ heap = <<>>
  /\ pc = [op |-> "setupConfig", key |-> "", value |-> [type |-> "null"],
           runCallback |-> FALSE, callback |-> "", called |-> <<>>,
           events |-> <<>>, reported |-> FALSE, raised |-> FALSE]

\* config.set(key, value, runCallback); 0.5 is not handed to scale
Set(key, value, runCallback) ==
  /\ key = "scale" => ~(value.type = "number" /\ value.half)
  /\ \E o \in {set(config, key, value, runCallback)} :
       /\ config' = o.config
       /\ pc' = [op |-> "set", key |-> key, value |-> value,
                 runCallback |-> runCallback, callback |-> "",
                 called |-> o.called, events |-> o.events,
                 reported |-> o.reported, raised |-> o.raised]
  /\ UNCHANGED <<data, cam, chunkDiameter, chunkLoadRange, lastChunkDist,
                 chunks, activeChunks, chunkCentroid, heap>>

\* config.setSetterCallback(key, callback)
Subscribe(key, callback) ==
  /\ \E o \in {setSetterCallback(config, key, callback)} :
       /\ config' = o.config
       /\ pc' = [op |-> "setSetterCallback", key |-> key,
                 value |-> [type |-> "null"], runCallback |-> FALSE,
                 callback |-> callback, called |-> o.called,
                 events |-> o.events, reported |-> o.reported,
                 raised |-> o.raised]
  /\ UNCHANGED <<data, cam, chunkDiameter, chunkLoadRange, lastChunkDist,
                 chunks, activeChunks, chunkCentroid, heap>>

NextConfig ==
  \/ \E key \in ConfigKeys : \E value \in ConfigValues :
       \E runCallback \in BOOLEAN : Set(key, value, runCallback)
  \/ \E key \in SubscribedKeys : \E callback \in Subscribers :
       Subscribe(key, callback)

SpecConfig == InitConfig /\ [][NextConfig]_vars

\* whether a value has the type documented for a key: a boolean for
\* darkMode, a positive number for scale and for the diameters, a positive
\* integer for chunkDiameter and chunkLoadRange, null or an array of family
\* names for shownFamilies, a string for the tissues and the colours; no
\* value is documented for a key the store does not know
Documented(key, value) ==
  CASE key = "darkMode" -> value.type = "boolean"
    [] key \in {"scale", "A_Diameter", "A_OutlierDiameter"} ->
         value.type = "number" /\ ~notPositive(value)
    [] key \in {"chunkDiameter", "chunkLoadRange"} ->
         value.type = "number" /\ ~value.half /\ value.n > 0
    [] key = "shownFamilies" -> value.type \in {"null", "array"}
    [] key \in {"tissueX", "tissueY", "tissueZ", "A_Color", "A_OutlierColor"}
         -> value.type = "string"
    [] OTHER -> FALSE

\* C17: config.set with a key the store does not know, or with a value that
\* is not of the type documented for the key, leaves the store as it was
\* (config.get returns the prior value), calls no setter callback and
\* dispatches no chunkReload event; the failure is logged, and nothing is
\* thrown to the caller.
C17_RejectedSetIsDropped ==
  [][(pc'.op = "set" /\ ~Documented(pc'.key, pc'.value)) =>
       /\ config' = config
       /\ get(config', pc'.key) = get(config, pc'.key)
       /\ pc'.called = <<>>
       /\ pc'.events = <<>>
       /\ pc'.reported
       /\ ~pc'.raised
    ]_vars

\* whether the store holds the content of a value under a key
Holds(cfg, key, value) ==
  IF key \in DOMAIN cfg.allModes THEN cfg.allModes[key] = contentOf(value)
  ELSE /\ key \in DOMAIN modeValues(cfg)
       /\ modeValues(cfg)[key] = contentOf(value)

\* the structural keys and the keys of a family
ReloadingKeys ==
  {"tissueX", "tissueY", "tissueZ", "chunkDiameter", "chunkLoadRange",
   "scale", "darkMode", "shownFamilies", "A_Color", "A_OutlierColor",
   "A_Diameter", "A_OutlierDiameter"}

\* C18: for a structural key or a key of a family, config.set(key, v) with a
\* value v of the documented type stores v (config.get returns it) and
\* dispatches at least one chunkReload event.
C18_StructuralSetReloads ==
  [][(/\ pc'.op = "set"
      /\ pc'.runCallback
      /\ pc'.key \in ReloadingKeys
      /\ Documented(pc'.key, pc'.value)) =>
       /\ Holds(config', pc'.key, pc'.value)
       /\ Len(pc'.events) >= 1
    ]_vars

\* C19: a key has at most one subscriber.  The first setSetterCallback for a
\* key registers the callback and calls it at once with the current value of
\* the key; a later one throws, calls nothing and leaves the registration as
\* it was; a later change of the key by config.set calls the registered
\* callback with the new value.
C19_OneSubscriber ==
  [][/\ \A key \in ConfigKeys : Len(callbacksOf(config', key)) <= 1
     /\ (pc'.op = "setSetterCallback" /\ callbacksOf(config, pc'.key) = <<>>) =>
          /\ callbacksOf(config', pc'.key) =
               <<[key |-> pc'.key, callback |-> pc'.callback]>>
          /\ pc'.called = <<<<pc'.callback, get(config, pc'.key)>>>>
          /\ ~pc'.raised
     /\ (pc'.op = "setSetterCallback" /\ callbacksOf(config, pc'.key) # <<>>) =>
          /\ pc'.raised
          /\ pc'.called = <<>>
          /\ config' = config
     /\ (/\ pc'.op = "set"
         /\ pc'.runCallback
         /\ config' # config
         /\ callbacksOf(config, pc'.key) # <<>>) =>
          /\ callbacksOf(config', pc'.key) = callbacksOf(config, pc'.key)
          /\ pc'.called # <<>>
          /\ pc'.called[1] = <<callbacksOf(config, pc'.key)[1].callback,
                               contentOf(pc'.value)>>
    ]_vars

\* a second subscriber for scale was turned away after the value of scale had
\* been set; the first one is still registered
C19_Witness ==
  /\ pc.op = "setSetterCallback"
  /\ pc.key = "scale"
  /\ pc.callback = "second"
  /\ pc.raised
  /\ pc.called = <<>>
  /\ "scale" \in DOMAIN config.allModes
  /\ callbacksOf(config, "scale") = <<[key |-> "scale", callback |-> "first"]>>

----------------------------------------------------------------------------
(* Specification of fillThinInstanceBuffers alone: the two buffers of a    *)
(* geometry have been allocated for MaxFillSlots instances, and            *)
(* fillThinInstanceBuffers is called on their slots in any order.  heap    *)
(* holds the geometry, pc the last call.                                   *)

\* the coordinates of the points that are filled in
FillPoints == {<<0, 0, 0>>, <<1, 2, 3>>, <<3, -1, 2>>}

\* the colours that are filled in: of "#123456" and of "#ABCDEF09"
FillColors ==
  {FromHexString(<<1, 2, 3, 4, 5, 6>>),
   FromHexString(<<10, 11, 12, 13, 14, 15, 0, 9>>)}

InitFill ==
  /\ data = <<>>
  /\ config = <<>>
  /\ cam = <<0, 0, 0>>
  /\ chunkDiameter = 1
  /\ chunkLoadRange = 0
  /\ lastChunkDist = 0
  /\ chunks = <<>>
  /\ activeChunks = <<>>
  /\ chunkCentroid = cam
  /\ heap = <<[shape |-> "sphere",
               matrix |-> Float32Array(16 * MaxFillSlots),
               color |-> Float32Array(4 * MaxFillSlots)]>>
  /\ pc = [op |-> "allocated", slot |-> 0, diameter |-> 0,
           point |-> <<0, 0, 0>>, color |-> [r |-> 0, g |-> 0, b |-> 0, a |-> 0]]

\* fillThinInstanceBuffers(dimensionsBuffer, slot * 16, colorBuffer,
\* slot * 4, diameter, point, color)
Fill(slot, diameter, point, color) ==
  /\ \E f \in {fillThinInstanceBuffers(heap[1].matrix, slot * 16,
                                       heap[1].color, slot * 4,
                                       diameter, point, color)} :
       heap' = [heap EXCEPT ![1].matrix = f[1], ![1].color = f[2]]
  /\ pc' = [op |-> "fill", slot |-> slot, diameter |-> diameter,
            point |-> point, color |-> color]
  /\ UNCHANGED <<data, config, cam, chunkDiameter, chunkLoadRange,
                 lastChunkDist, chunks, activeChunks, chunkCentroid>>

NextFill ==
  \E slot \in 0..(MaxFillSlots - 1) : \E diameter \in 1..MaxFillDiameter :
    \E point \in FillPoints : \E color \in FillColors :
      Fill(slot, diameter, point, color)

SpecFill == InitFill /\ [][NextFill]_vars

\* the 16 entries of a transform buffer from the base b on
TransformSlot(matrix, b) == [i \in 1..16 |-> matrix[b + i]]

\* the 4 entries of a colour buffer from the base c on
ColorSlot(buffer, c) == [i \in 1..4 |-> buffer[c + i]]

\* C31: after fillThinInstanceBuffers on the slot with the transform base b
\* and the colour base c, the 16 entries from b on are the diameter at b,
\* b+5 and b+10, x, y, z of the point at b+12, b+13, b+14, 1 at b+15 and 0
\* at the nine other offsets; the 4 entries from c on are r, g, b, a of the
\* colour; every entry of the two buffers outside these slots is as it was.
C31_SlotLayout ==
  [][pc'.op = "fill" =>
       /\ TransformSlot(heap'[1].matrix, 16 * pc'.slot) =
            <<pc'.diameter, 0, 0, 0,
              0, pc'.diameter, 0, 0,
              0, 0, pc'.diameter, 0,
              pc'.point[1], pc'.point[2], pc'.point[3], 1>>
       /\ ColorSlot(heap'[1].color, 4 * pc'.slot) =
            <<pc'.color.r, pc'.color.g, pc'.color.b, pc'.color.a>>
       /\ Len(heap'[1].matrix) = Len(heap[1].matrix)
       /\ Len(heap'[1].color) = Len(heap[1].color)
       /\ \A i \in DOMAIN heap[1].matrix :
            i \notin (16 * pc'.slot + 1)..(16 * pc'.slot + 16) =>
              heap'[1].matrix[i] = heap[1].matrix[i]
       /\ \A i \in DOMAIN heap[1].color :
            i \notin (4 * pc'.slot + 1)..(4 * pc'.slot + 4) =>
              heap'[1].color[i] = heap[1].color[i]
    ]_vars

\* the slot 1 has been filled with the point (1,2,3), the diameter 2 and the
\* colour of "#ABCDEF09" after the slot 0 was filled with the point
\* (3,-1,2), the diameter 1 and the colour of "#123456"
C31_Witness ==
  /\ pc.op = "fill"
  /\ pc.slot = 1
  /\ heap[1].matrix = <<1, 0, 0, 0, 0, 1, 0, 0, 0, 0, 1, 0, 3, -1, 2, 1,
                        2, 0, 0, 0, 0, 2, 0, 0, 0, 0, 2, 0, 1, 2, 3, 1>>
  /\ heap[1].color = <<18, 52, 86, 255, 171, 205, 239, 9>>

----------------------------------------------------------------------------
(* Specification of handler.getColor alone: getColor is called on a family *)
(* name of up to MaxNameLength characters, given by its char codes, again  *)
(* and again with darkMode on or off.  data holds the name, pc the last    *)
(* call and its result.                                                    *)

\* the char codes of the characters of the names: "A", "B", "a", "_" and
\* the euro sign, a code above 255
NameCodes == {65, 66, 97, 95, 8364}

\* the names of n characters
RECURSIVE NamesOf(_)
NamesOf(n) ==
  IF n = 0 THEN {<<>>}
  ELSE {Append(name, code) : name \in NamesOf(n - 1), code \in NameCodes}

\* the family names
Names == UNION {NamesOf(n) : n \in 0..MaxNameLength}

InitColor ==
  /\ data \in Names
  /\ config = <<>>
  /\ cam = <<0, 0, 0>>
  /\ chunkDiameter = 1
  /\ chunkLoadRange = 0
  /\ lastChunkDist = 0
  /\ chunks = <<>>
  /\ activeChunks = <<>>
  /\ chunkCentroid = cam
  /\ heap = <<>>
  /\ pc = [op |-> "imported", darkMode |-> FALSE, color |-> <<>>]

\* handler.getColor(family) with config.get("darkMode") = darkMode
GetColor(darkMode) ==
  /\ pc' = [op |-> "getColor", darkMode |-> darkMode,
            color |-> getColorOfCodes(data, darkMode)]
  /\ UNCHANGED <<data, config, cam, chunkDiameter, chunkLoadRange,
                 lastChunkDist, chunks, activeChunks, chunkCentroid, heap>>

NextColor == \E darkMode \in BOOLEAN : GetColor(darkMode)

SpecColor == InitColor /\ [][NextColor]_vars

\* the low 18 bits of a 32 bit word given by its halves
Low18(crc) == (crc.hi % 4) * 65536 + crc.lo

\* the base 8 digit of weight 8^(6 - i) of a number
OctalDigit(value, i) == (value \div (8 ^ (6 - i))) % 8

====
